---- MODULE Spec2Model ----
(***************************************************************************)
(* Model of the mailbox change-notification engine of prokaryotes          *)
(* (src/prokaryotes/imap_v1.py): the IngestController, its idle_manager    *)
(* worker, the signal queue and graceful_shutdown.                         *)
(*                                                                         *)
(* Three execution contexts take steps, one source statement at a time:    *)
(*   - the caller of run()            (cpc, control_signal)                *)
(*   - the executor's worker thread running idle_manager (wpc, ...)        *)
(*   - a caller of graceful_shutdown  (spc)                                *)
(* The IMAP server and the imapclient library are the environment: every   *)
(* call on a connection either succeeds or raises one of CONNECTION_ERRORS.*)
(*                                                                         *)
(* Further specifications over the same variables:                         *)
(*   - PutSpec    the signal queue alone                                   *)
(*   - RerunSpec  run() invoked again on the same controller               *)
(*   - CtorSpec   IngestController() in every small environment            *)
(*   - FetchSpec  fetch_messages and fetch_part_ref on a read connection   *)
(*   - PartsSpec  classify_parts, the body choice and parse_params         *)
(***************************************************************************)
EXTENDS Integers, Sequences, FiniteSets, TLC

(***************************************************************************)
(* Bounds of the model.                                                    *)
(***************************************************************************)
MaxFaults    == 1  \* genuine connection errors the environment may inject
MaxResponses == 2  \* untagged responses the server pushes in all
MaxStops     == 2  \* invocations of graceful_shutdown
MaxCap       == 2  \* largest queue capacity tried on the queue alone
MaxPuts      == 3  \* puts tried on the queue alone
MaxMsgs      == 2  \* messages of the folder the fetch functions read
MaxCalls     == 2  \* calls of the fetch functions on one connection
MaxParts     == 5  \* parts of a body structure, multiparts and leaves
MaxPairs     == 2  \* key/value pairs of a parameter tuple

\* One connection per call of get_client: the first, and one per reconnect.
MaxConns == MaxFaults + 1

(***************************************************************************)
(* Program constants.                                                      *)
(***************************************************************************)
idle_check_timeout   == 60
idle_restart_seconds == 600
\* queue.Queue() is built with no maxsize argument: maxsize = 0.
DefaultMaxsize == 0

\* time.monotonic() - time_started is only compared with idle_restart_seconds:
\* the model stops counting one idle wait past it.
ElapsedCap == idle_restart_seconds + idle_check_timeout

VARIABLES
    \* ---- IngestController fields
    running,            \* self._running
    idle_manager_client,\* self._idle_manager_client: 0 is None, else a connection
    executor_shutdown,  \* self._idle_manager_executor has been shut down
    queue,              \* self._queue: the queued ControlSignals, oldest first
    maxsize,            \* self._queue.maxsize
    \* ---- logging and error outcomes
    warnings,           \* number of "Queue full, dropped" warnings logged
    putRaised,          \* an exception left safe_put_nowait
    \* ---- the environment: connections made by IMAPClientFactory.get_client
    conn,               \* state of each connection
    nconn,              \* connections made so far
    idleOn,             \* the connection with an IDLE command active, or 0
    \* ---- idle_manager (worker thread)
    wpc,                \* position of the worker
    responses,          \* local: the list idle_check returned
    ri,                 \* local: index of the for loop over responses
    elapsed,            \* time.monotonic() - time_started
    exc,                \* class of the exception in flight in the worker
    forced,             \* the worker's last connection error came from a forced close
    \* ---- run (consumer)
    cpc,                \* position of the caller of run()
    control_signal,     \* local: the signal taken from the queue
    \* ---- graceful_shutdown
    spc,                \* position of the caller of graceful_shutdown
    stops,              \* invocations of graceful_shutdown so far
    stopAt,             \* the worker was in its idle wait ("idle_check") or not
                        \* ("elsewhere") when graceful_shutdown was last invoked
    \* ---- history
    putLog,             \* every signal handed to safe_put_nowait, in order
    taken,              \* every signal the consumer took, in order
    faults,             \* genuine connection errors injected so far
    pushed,             \* responses the server has pushed so far
    selects,            \* select_folder commands issued so far
    mark,               \* bookkeeping of the idle wait being processed
    \* ---- the executor behind self._idle_manager_executor
    work_queue,         \* idle_manager tasks submitted and not yet started
    extra,              \* idle_manager tasks running on a second pool thread
    \* ---- what run() hands on
    callbacks,          \* every value handed to the application's callback
    \* ---- construction
    environ,            \* os.environ: IMAP_HOST, IMAP_USERNAME, IMAP_PASSWORD
    factory,            \* outcome of IngestController(): "unbuilt", "built", "raised"
    \* ---- fetch_messages and fetch_part_ref on a read connection
    mailbox,            \* the folder on the server: what it holds for each UID
    rconn,              \* the read connection: "open" or "broken"
    rfaults,            \* connection errors injected on the read connection
    fpc,                \* position of the caller of the fetch functions
    calls,              \* calls made so far
    unseen_messages,    \* local: the UIDs the search returned
    response,           \* local: what client.fetch returned
    fi,                 \* local: index of the loop over response.items()
    fetched_messages,   \* local: the Messages built so far (their UIDs)
    part,               \* argument of fetch_part_ref
    pdata,              \* local "data" of fetch_part_ref: the section's bytes
    result,             \* what the last call returned
    fcmds,              \* the commands the current call has issued
    ferr,               \* a connection error was raised in the current call
    pmiss,              \* the UID or section named by part was not there
    outcomes,           \* per finished call: was the part missing, what returned
    \* ---- classify_parts and the body of a Message
    body_structure,     \* the BODYSTRUCTURE item of one message
    leaf_parts,         \* what iter_leaf_parts yields: (section, leaf) pairs
    html_parts,         \* local: the text/html bucket
    plain_parts,        \* local: the text/plain bucket
    calendar_parts,     \* local: the text/calendar bucket
    attachment_parts,   \* local: the attachments bucket
    body_part,          \* local: the part chosen as Message.body
    \* ---- parse_params
    params,             \* argument of parse_params
    param_struct        \* what parse_params returned

ctlVars  == <<running, idle_manager_client, executor_shutdown>>
qVars    == <<queue, maxsize, warnings, putRaised, putLog>>
envVars  == <<conn, nconn, idleOn, faults, pushed, selects>>
wVars    == <<wpc, responses, ri, elapsed, exc, forced, mark>>
cVars    == <<cpc, control_signal, taken>>
sVars    == <<spc, stops, stopAt>>
xVars    == <<work_queue, extra>>
kVars    == <<environ, factory>>
partVars == <<body_structure, leaf_parts, html_parts, plain_parts, calendar_parts,
               attachment_parts, body_part, params, param_struct>>
fVars    == <<mailbox, rconn, rfaults, fpc, calls, unseen_messages, response, fi,
               fetched_messages, part, pdata, result, fcmds, ferr, pmiss, outcomes,
               partVars>>
\* What no step of the controller's threads writes.
outVars  == <<callbacks, kVars, fVars>>
vars     == <<ctlVars, qVars, envVars, wVars, cVars, sVars, xVars, outVars>>

(***************************************************************************)
(* ControlSignal                                                           *)
(***************************************************************************)
None == 0

\* Raw payloads of FETCH responses: two, to tell the signals' order and
\* content apart.
Payloads == {1, 2}

ControlSignal_exists      == [signal_type |-> "EXISTS",   data |-> None]
ControlSignal_fetch(data) == [signal_type |-> "FETCH",    data |-> data]
ControlSignal_shutdown    == [signal_type |-> "SHUTDOWN", data |-> None]

\* run has taken no signal yet.
NoSignal == [signal_type |-> "NONE", data |-> None]

ControlSignal ==
    {ControlSignal_exists, ControlSignal_shutdown}
        \cup {ControlSignal_fetch(p) : p \in Payloads}

(***************************************************************************)
(* Untagged responses of the server, as idle_check returns them:           *)
(* (seq, b'EXISTS'), (seq, b'FETCH', payload), or another kind.            *)
(***************************************************************************)
Response ==
    {[kind |-> "EXISTS", data |-> None], [kind |-> "EXPUNGE", data |-> None]}
        \cup {[kind |-> "FETCH", data |-> p] : p \in Payloads}

SeqsUpTo(S, n) == UNION {[1..k -> S] : k \in 0..n}

\* The lists an idle wait may return once n responses were pushed.
ResponseLists(n) == SeqsUpTo(Response, MaxResponses - n)


(***************************************************************************)
(* The signal queue: queue.Queue.put_nowait raises Full only when maxsize  *)
(* is positive and reached; safe_put_nowait turns Full into one warning.   *)
(***************************************************************************)
QueueFull(q, m) == m > 0 /\ Len(q) >= m

\* safe_put_nowait without its except clause: Full reaches the caller.
PutResult_noExcept(q, m, sig) ==
    IF QueueFull(q, m)
    THEN [queue |-> q, warned |-> 0, raised |-> TRUE]
    ELSE [queue |-> Append(q, sig), warned |-> 0, raised |-> FALSE]

\* What safe_put_nowait does to a queue q of capacity m.
PutResult(q, m, sig) ==
    IF QueueFull(q, m)
    THEN [queue |-> q, warned |-> 1, raised |-> FALSE]
    ELSE [queue |-> Append(q, sig), warned |-> 0, raised |-> FALSE]

safe_put_nowait(sig) ==
    LET r == PutResult(queue, maxsize, sig) IN
    /\ queue' = r.queue
    /\ warnings' = warnings + r.warned
    /\ putRaised' = (putRaised \/ r.raised)
    /\ putLog' = Append(putLog, sig)
    /\ maxsize' = maxsize

\* A get that hands out the newest signal instead of the oldest.
QueueGet_lifo(q) == [item |-> q[Len(q)], rest |-> SubSeq(q, 1, Len(q) - 1)]

\* queue.Queue.get: the oldest signal, and what stays queued.
QueueGet(q) == [item |-> Head(q), rest |-> Tail(q)]

(***************************************************************************)
(* Connections.  A connection is "open" from get_client until the with     *)
(* block's exit logs out and closes it ("closed"); socket().shutdown from  *)
(* graceful_shutdown makes it "shut": every later call on it raises.       *)
(***************************************************************************)
Conns == 1..MaxConns

\* The exceptions a call on a connection raises when the connection fails.
ErrorClasses == {"ConnectionError", "abort", "SSLError"}

\* Outcomes of one call on connection c: "ok" or the class of the exception
\* raised.  On a connection that was shut down the call fails: the read sees
\* EOF (abort) or the write a broken pipe (ConnectionError).
IOOutcomes(c) ==
    IF conn[c] = "shut" THEN {"abort", "ConnectionError"}
    ELSE {"ok"} \cup (IF faults < MaxFaults THEN ErrorClasses ELSE {})

\* The call's exception, if any, is a genuine failure of an intact connection.
Fault(o, c) == IF o # "ok" /\ conn[c] # "shut" THEN faults + 1 ELSE faults

\* ... or it is the doing of graceful_shutdown.
Forced(o, c) == IF o = "ok" THEN forced ELSE conn[c] = "shut"

NoMark == [conn |-> 0, selects |-> 0, start |-> 0, exists |-> FALSE]

(***************************************************************************)
(* get_imap_client_factory: the three settings read from the environment.  *)
(* os.environ.get gives None for a variable that is not set; None and the  *)
(* empty string are both falsy.                                            *)
(***************************************************************************)
Unset == "<unset>"

EnvKeys == {"IMAP_HOST", "IMAP_USERNAME", "IMAP_PASSWORD"}

EnvValues == {Unset, "", "value"}

Truthy(v) == v # Unset /\ v # ""

\* A check of the host alone.
get_imap_client_factory_hostOnly(env) ==
    IF Truthy(env["IMAP_HOST"]) THEN "built" ELSE "raised"

\* if imap_host and imap_username and imap_password: return the factory;
\* raise RuntimeError otherwise                                (line 274-280)
get_imap_client_factory(env) ==
    IF /\ Truthy(env["IMAP_HOST"])
       /\ Truthy(env["IMAP_USERNAME"])
       /\ Truthy(env["IMAP_PASSWORD"])
    THEN "built" ELSE "raised"

\* An environment with the three settings, and the controller built from it.
Constructed ==
    /\ environ = [k \in EnvKeys |-> "value"]
    /\ factory = "built"

(***************************************************************************)
(* fetch_messages and fetch_part_ref: the folder they read, and what they  *)
(* return.                                                                 *)
(***************************************************************************)
UIDs == 1..MaxMsgs

Gone == "gone"

\* What the server's FETCH reply holds for a message, by what becomes of it
\* in the loop of line 229-260:
\*   good               every item and header is there and well formed
\*   no_header_block    the reply has no BODY[HEADER.FIELDS ...] item
\*   no_bodystructure   the reply has no BODYSTRUCTURE item
\*   bad_bodystructure  classify_parts raises on the body structure
\*   no_message_id      a required header is missing from the header block
\*   bad_date           parsedate_to_datetime raises on the Date header
MessageKinds ==
    {"good", "no_header_block", "no_bodystructure", "bad_bodystructure",
     "no_message_id", "bad_date"}

Mailboxes == [UIDs -> MessageKinds \cup {Gone}]

\* The UIDs of a set in ascending order.
RECURSIVE Ascending(_)
Ascending(S) ==
    IF S = {} THEN <<>>
    ELSE LET m == CHOOSE x \in S : \A y \in S : x <= y
         IN <<m>> \o Ascending(S \ {m})

\* client.search: the UIDs of the messages the folder holds.
Search(mb) == Ascending({u \in UIDs : mb[u] # Gone})

\* client.fetch(uids, ...): one entry per UID that is still there.
FetchReply(mb, uids) ==
    LET there == SelectSeq(uids, LAMBDA u : mb[u] # Gone)
    IN [i \in 1..Len(there) |-> [uid |-> there[i], kind |-> mb[there[i]]]]

\* What a function returned: nothing yet, None, a list or bytes.
NoResult       == [kind |-> "pending", value |-> <<>>]
NoneResult     == [kind |-> "None",    value |-> <<>>]
ListResult(l)  == [kind |-> "list",    value |-> l]
BytesResult(b) == [kind |-> "bytes",   value |-> <<b>>]

\* Sections of a message: "1" is a part every message has, "9" one that no
\* message has.
Sections == {"1", "9"}

\* part.encoding: None, or the transfer encoding named by the body structure.
NoEncoding == "<none>"
Encodings == {NoEncoding, "base64", "quoted-printable", "7bit"}

\* The bytes of a section as the server sends them: bytes that b64decode
\* accepts, other bytes, or NIL for a section that is not there.
NIL == "NIL"
SectionData == {"b64", "other"}

MessagePartRef == [uid : UIDs, section : Sections, encoding : Encodings]

NoPart == [uid |-> 0, section |-> "", encoding |-> NoEncoding]

(***************************************************************************)
(* Body structures.  The values imapclient hands over are Python values of *)
(* several types; each carries its type, so that truthiness, isinstance    *)
(* and len can be asked of it as the code asks.                            *)
(***************************************************************************)
PNone       == [t |-> "None"]
PBytes(s)   == [t |-> "bytes", bytes |-> s]
PStr(s)     == [t |-> "str",   str   |-> s]
PInt(n)     == [t |-> "int",   int   |-> n]
PTuple(s)   == [t |-> "tuple", items |-> s]
PList(s)    == [t |-> "list",  elems |-> s]

\* "not x" is true of x.
Falsy(x) ==
    \/ x.t = "None"
    \/ x.t = "tuple" /\ x.items = <<>>
    \/ x.t = "list" /\ x.elems = <<>>
    \/ x.t = "bytes" /\ x.bytes = ""
    \/ x.t = "str" /\ x.str = ""
    \/ x.t = "int" /\ x.int = 0

\* x[i] and len(x) of a tuple or list, i counted from 0.
At(x, i) == IF x.t = "tuple" THEN x.items[i + 1] ELSE x.elems[i + 1]
len(x)   == IF x.t = "tuple" THEN Len(x.items) ELSE Len(x.elems)

\* bytes.decode("utf-8", "replace")                             (line 160-161)
bytes2str(b) == b.bytes

\* str.lower() on the words that occur in the body structures below.
lower(s) ==
    CASE s = "TEXT"       -> "text"
      [] s = "HTML"       -> "html"
      [] s = "ATTACHMENT" -> "attachment"
      [] s = "INLINE"     -> "inline"
      [] s = "FILENAME"   -> "filename"
      [] s = "NAME"       -> "name"
      [] s = "CHARSET"    -> "charset"
      [] s = "UTF-8"      -> "utf-8"
      [] s = "A.txt"      -> "a.txt"
      [] s = "BASE64"     -> "base64"
      [] OTHER            -> s

\* A text leaf as RFC 3501 lays it out: type, subtype, parameters, id,
\* description, encoding, size, lines, then the extension data md5,
\* disposition, language, location.  The disposition is field 9.
TextLeaf(type, subtype, p, size, disposition) ==
    PTuple(<<PBytes(type), PBytes(subtype), p, PNone, PNone, PBytes("7bit"),
             size, PInt(1), PNone, disposition, PNone, PNone>>)

\* A text leaf sent without extension data: eight fields.
ShortLeaf(type, subtype, p, size) ==
    PTuple(<<PBytes(type), PBytes(subtype), p, PNone, PNone, PBytes("7bit"),
             size, PInt(1)>>)

\* A leaf of another media type has no lines field: the disposition is
\* field 8 and field 9 is the language.
BasicLeaf(type, subtype, p, size, disposition) ==
    PTuple(<<PBytes(type), PBytes(subtype), p, PNone, PNone, PBytes("BASE64"),
             size, PNone, disposition, PNone, PNone>>)

\* The leaves a body structure is made of.
LeafParts ==
    LET NameParam    == PTuple(<<PBytes("NAME"), PBytes("A.txt")>>)
        CharsetParam == PTuple(<<PBytes("CHARSET"), PBytes("UTF-8")>>)
    IN
    << TextLeaf("TEXT", "HTML", CharsetParam, PNone,
                PTuple(<<PBytes("inline"), PNone>>)),
       TextLeaf("text", "html", NameParam, PInt(3),
                PTuple(<<PBytes("INLINE"), PNone>>)),
       TextLeaf("text", "plain", PNone, PInt(7),
                PTuple(<<PBytes("INLINE"),
                         PTuple(<<PBytes("FILENAME"), PBytes("a.txt")>>)>>)),
       ShortLeaf("text", "plain", NameParam, PNone),
       TextLeaf("text", "plain", PNone, PInt(3), PBytes("ATTACHMENT")),
       TextLeaf("text", "calendar", PNone, PInt(3),
                PTuple(<<PBytes("ATTACHMENT"), PNone>>)),
       BasicLeaf("image", "png", PNone, PInt(5),
                 PTuple(<<PBytes("attachment"),
                          PTuple(<<PBytes("filename"), PBytes("a.png")>>)>>)) >>

\* The shapes of the body structures of exactly n parts, multiparts and
\* leaves counted alike, and the non-empty child lists of n parts in all.  A
\* shape names each of its leaves by its place in LeafParts.
RECURSIVE Shapes(_), ChildShapes(_)
Shapes(n) ==
    IF n = 1 THEN {[leaf |-> i] : i \in 1..Len(LeafParts)}
    ELSE {[children |-> c] : c \in ChildShapes(n - 1)}

ChildShapes(n) ==
    UNION { LET first  == Shapes(j)
                others == IF j = n THEN {<<>>} ELSE ChildShapes(n - j)
            IN { <<pair[1]>> \o pair[2] : pair \in first \X others }
            : j \in 1..n }

\* The shapes of at most n parts.
BodyShapes(n) == UNION {Shapes(k) : k \in 1..n}

\* The body structure of a shape.  A multipart is the list of its children,
\* then its subtype.
RECURSIVE BodyStructure(_)
BodyStructure(shape) ==
    IF "leaf" \in DOMAIN shape THEN LeafParts[shape.leaf]
    ELSE PTuple(<<PList([i \in 1..Len(shape.children) |->
                             BodyStructure(shape.children[i])]),
                  PBytes("mixed")>>)

\* Parameter tuples of at most n pairs as the server sends them: keys and
\* values alternate; a key may come in any letter case and may come twice.
ParamTuples(n) ==
    LET ParamWords == {PBytes("NAME"), PBytes("name"), PBytes("A.txt"), PBytes("a.txt")}
    IN {PNone} \cup {PTuple(s) : s \in SeqsUpTo(ParamWords, 2 * n)}

\* A dict: a function from its keys.
EmptyDict == <<>>
DictSet(d, k, val) == [x \in DOMAIN d \cup {k} |-> IF x = k THEN val ELSE d[x]]
\* dict.get(k): the value as a str, or None.
DictGet(d, k) == IF k \in DOMAIN d THEN PStr(d[k]) ELSE PNone

\* Nothing was classified or parsed.
PartsIdle ==
    /\ body_structure = PNone
    /\ leaf_parts = <<>>
    /\ html_parts = <<>>
    /\ plain_parts = <<>>
    /\ calendar_parts = <<>>
    /\ attachment_parts = <<>>
    /\ body_part = PNone
    /\ params = PNone
    /\ param_struct = EmptyDict

\* The read connection before any call of a fetch function.
ReadIdle ==
    /\ mailbox = [u \in UIDs |-> Gone]
    /\ rconn = "open"
    /\ rfaults = 0
    /\ calls = 0
    /\ unseen_messages = <<>>
    /\ response = <<>>
    /\ fi = 0
    /\ fetched_messages = <<>>
    /\ part = NoPart
    /\ pdata = NIL
    /\ result = NoResult
    /\ fcmds = <<>>
    /\ ferr = FALSE
    /\ pmiss = FALSE
    /\ outcomes = <<>>

\* No call of a fetch function was made: the state the controller's own
\* behaviour is checked in.
FetchIdle ==
    /\ ReadIdle
    /\ fpc = "ready"
    /\ PartsIdle

(***************************************************************************)
(* IngestController.__init__                                               *)
(***************************************************************************)
\* Everything __init__ sets up but the queue.
InitController ==
    /\ running = FALSE
    /\ idle_manager_client = None
    /\ executor_shutdown = FALSE
    /\ warnings = 0
    /\ putRaised = FALSE
    /\ conn = [c \in Conns |-> "unmade"]
    /\ nconn = 0
    /\ idleOn = 0
    /\ wpc = "unstarted"
    /\ responses = <<>>
    /\ ri = 0
    /\ elapsed = 0
    /\ exc = "none"
    /\ forced = FALSE
    /\ cpc = "call"
    /\ control_signal = NoSignal
    /\ spc = "idle"
    /\ stops = 0
    /\ stopAt = "none"
    /\ putLog = <<>>
    /\ taken = <<>>
    /\ faults = 0
    /\ selects = 0
    /\ mark = NoMark
    /\ work_queue = 0
    /\ extra = 0
    /\ callbacks = <<>>

Init ==
    /\ InitController
    /\ FetchIdle
    /\ queue = <<>>
    /\ maxsize = DefaultMaxsize
    /\ pushed = 0
    /\ Constructed

\* The same controller on a mailbox where nothing changes: the server has no
\* response to push, and every idle wait times out or fails.
QuietInit ==
    /\ InitController
    /\ FetchIdle
    /\ queue = <<>>
    /\ maxsize = DefaultMaxsize
    /\ pushed = MaxResponses
    /\ Constructed

(***************************************************************************)
(* idle_manager, one action per statement.                                 *)
(***************************************************************************)
\* The tuple without imaplib.IMAP4.abort.
CONNECTION_ERRORS_noAbort == {"ConnectionError", "SSLError"}

\* CONNECTION_ERRORS = (ConnectionError, imaplib.IMAP4.abort, ssl.SSLError)
CONNECTION_ERRORS == {"ConnectionError", "abort", "SSLError"}

\* Where an exception of class e raised in the try block goes: to the except
\* clause of line 137, or out of idle_manager.
Handler(e) == IF e \in CONNECTION_ERRORS THEN "except" ELSE "crashed"

\* A reconnect decision that does not look at the stop flag (while True).
KeepRunning_ignoreFlag(flag) == TRUE

\* Line 112: the reconnect decision reads the stop flag.
KeepRunning(flag) == flag

\* while self._running:                                            (line 112)
W_While ==
    /\ wpc = "outer_while"
    /\ wpc' = IF KeepRunning(running) THEN "get_client" ELSE "exited"
    /\ exc' = "none"
    /\ UNCHANGED <<responses, ri, elapsed, forced, mark>>
    /\ UNCHANGED <<ctlVars, qVars, envVars, cVars, sVars>>
    /\ UNCHANGED <<xVars, outVars>>

\* self._idle_manager_client = client = get_client()          (line 114, 83-89)
\* IMAPClient(...) connects, login authenticates.  A connection error before
\* the connection exists makes none; an exception raised by login (a
\* connection error, or LoginError for a rejected login) leaves the new
\* connection behind, referenced by nobody.
GetClientOutcomes ==
    {[at |-> "done", exc |-> "none"], [at |-> "login", exc |-> "LoginError"]}
        \cup (IF faults < MaxFaults
              THEN {[at |-> a, exc |-> e] : a \in {"connect", "login"}, e \in ErrorClasses}
              ELSE {})

W_GetClient ==
    /\ wpc = "get_client"
    /\ nconn < MaxConns
    /\ \E o \in GetClientOutcomes :
         /\ nconn' = IF o.at = "connect" THEN nconn ELSE nconn + 1
         /\ conn' = IF o.at = "connect" THEN conn ELSE [conn EXCEPT ![nconn + 1] = "open"]
         /\ idle_manager_client' = IF o.at = "done" THEN nconn + 1 ELSE idle_manager_client
         /\ faults' = IF o.exc \in ErrorClasses THEN faults + 1 ELSE faults
         /\ forced' = IF o.at = "done" THEN forced ELSE FALSE
         /\ exc' = o.exc
         /\ wpc' = IF o.at = "done" THEN "select" ELSE Handler(o.exc)
    /\ UNCHANGED <<running, executor_shutdown, idleOn, pushed, selects>>
    /\ UNCHANGED <<responses, ri, elapsed, mark>>
    /\ UNCHANGED <<qVars, cVars, sVars>>
    /\ UNCHANGED <<xVars, outVars>>

\* idle(client, folder): client.select_folder(folder)          (line 116, 283)
W_Select ==
    /\ wpc = "select"
    /\ \E o \in IOOutcomes(idle_manager_client) :
         /\ faults' = Fault(o, idle_manager_client)
         /\ forced' = Forced(o, idle_manager_client)
         /\ exc' = IF o = "ok" THEN "none" ELSE o
         /\ wpc' = IF o = "ok" THEN "idle" ELSE "with_exit"
    /\ selects' = selects + 1
    /\ mark' = NoMark
    /\ UNCHANGED <<conn, nconn, idleOn, pushed, responses, ri, elapsed>>
    /\ UNCHANGED <<ctlVars, qVars, cVars, sVars>>
    /\ UNCHANGED <<xVars, outVars>>

\* idle(client, folder): client.idle(); time_started = now  (line 116-117, 284)
W_Idle ==
    /\ wpc = "idle"
    /\ \E o \in IOOutcomes(idle_manager_client) :
         /\ faults' = Fault(o, idle_manager_client)
         /\ forced' = Forced(o, idle_manager_client)
         /\ exc' = IF o = "ok" THEN "none" ELSE o
         /\ wpc' = IF o = "ok" THEN "inner_while" ELSE "with_exit"
         /\ idleOn' = IF o = "ok" THEN idle_manager_client ELSE idleOn
    /\ elapsed' = 0
    /\ UNCHANGED <<conn, nconn, pushed, selects, responses, ri, mark>>
    /\ UNCHANGED <<ctlVars, qVars, cVars, sVars>>
    /\ UNCHANGED <<xVars, outVars>>

\* while self._running:                                            (line 118)
W_InnerWhile ==
    /\ wpc = "inner_while"
    /\ wpc' = IF running THEN "idle_check" ELSE "with_exit"
    /\ UNCHANGED <<responses, ri, elapsed, exc, forced, mark>>
    /\ UNCHANGED <<ctlVars, qVars, envVars, cVars, sVars>>
    /\ UNCHANGED <<xVars, outVars>>

Min(a, b) == IF a < b THEN a ELSE b

\* The test with the tag in the wrong letter case: no response matches.
HasExists_wrongCase(rs) == \E i \in 1..Len(rs) : rs[i].kind = "exists"

\* The test taking a response of any kind for EXISTS.
HasExists_anyKind(rs) == \E i \in 1..Len(rs) : TRUE

\* any(r[1] == b'EXISTS' for r in responses)                       (line 125)
HasExists(rs) == \E i \in 1..Len(rs) : rs[i].kind = "EXISTS"

\* How long an idle wait lasts: the whole timeout when nothing arrived.
WaitTimes(rs) == IF rs = <<>> THEN {idle_check_timeout} ELSE {0, idle_check_timeout}

\* responses = client.idle_check(timeout=idle_check_timeout)   (line 119-121)
W_IdleCheck ==
    /\ wpc = "idle_check"
    /\ \E o \in IOOutcomes(idle_manager_client) :
         /\ faults' = Fault(o, idle_manager_client)
         /\ forced' = Forced(o, idle_manager_client)
         /\ exc' = IF o = "ok" THEN "none" ELSE o
         /\ IF o = "ok"
            THEN \E rs \in ResponseLists(pushed) : \E d \in WaitTimes(rs) :
                   /\ responses' = rs
                   /\ pushed' = pushed + Len(rs)
                   /\ elapsed' = Min(elapsed + d, ElapsedCap)
                   /\ mark' = [conn |-> idle_manager_client, selects |-> selects,
                               start |-> Len(putLog), exists |-> FALSE]
                   /\ wpc' = "exists"
            ELSE /\ wpc' = "with_exit"
                 /\ UNCHANGED <<responses, pushed, elapsed, mark>>
    /\ UNCHANGED <<conn, nconn, idleOn, selects, ri>>
    /\ UNCHANGED <<ctlVars, qVars, cVars, sVars>>
    /\ UNCHANGED <<xVars, outVars>>

\* if responses and any(...EXISTS...): safe_put_nowait(exists)  (line 125-126)
W_Exists ==
    /\ wpc = "exists"
    /\ IF responses # <<>> /\ HasExists(responses)
       THEN /\ safe_put_nowait(ControlSignal_exists)
            /\ mark' = [mark EXCEPT !.exists = TRUE]
       ELSE UNCHANGED <<qVars, mark>>
    /\ wpc' = "fetch"
    /\ ri' = 1
    /\ UNCHANGED <<responses, elapsed, exc, forced>>
    /\ UNCHANGED <<ctlVars, envVars, cVars, sVars>>
    /\ UNCHANGED <<xVars, outVars>>

\* A loop that builds the Fetch signal without the response's payload.
FetchSignals_noPayload(r) ==
    IF r.kind = "FETCH" THEN <<ControlSignal_fetch(None)>> ELSE <<>>

\* A loop that puts a signal for every EXISTS response as well.
FetchSignals_existsToo(r) ==
    IF r.kind = "FETCH" THEN <<ControlSignal_fetch(r.data)>>
    ELSE IF r.kind = "EXISTS" THEN <<ControlSignal_exists>>
    ELSE <<>>

\* What the for loop puts for response r: a Fetch signal with r[2], or nothing.
FetchSignals(r) ==
    IF r.kind = "FETCH" THEN <<ControlSignal_fetch(r.data)>> ELSE <<>>

\* for r in responses: if r[1] == b'FETCH': safe_put_nowait(fetch(r[2]))
\*                                                              (line 127-129)
W_Fetch ==
    /\ wpc = "fetch"
    /\ IF ri <= Len(responses)
       THEN /\ IF FetchSignals(responses[ri]) # <<>>
               THEN safe_put_nowait(FetchSignals(responses[ri])[1])
               ELSE UNCHANGED qVars
            /\ ri' = ri + 1
            /\ wpc' = "fetch"
       ELSE /\ UNCHANGED <<qVars, ri>>
            /\ wpc' = "refresh_check"
    /\ UNCHANGED <<responses, elapsed, exc, forced, mark>>
    /\ UNCHANGED <<ctlVars, envVars, cVars, sVars>>
    /\ UNCHANGED <<xVars, outVars>>

\* The test that also refreshes at the threshold.
RefreshDue_atThreshold(t) == t >= idle_restart_seconds

\* if time.monotonic() - time_started > idle_restart_seconds      (line 131)
RefreshDue(t) == t > idle_restart_seconds

\* responses and the loop index are not read again before the next idle
\* wait assigns them: the model forgets them here.
W_RefreshCheck ==
    /\ wpc = "refresh_check"
    /\ wpc' = IF RefreshDue(elapsed) THEN "idle_done" ELSE "inner_while"
    /\ responses' = <<>> /\ ri' = 0
    /\ UNCHANGED <<elapsed, exc, forced, mark>>
    /\ UNCHANGED <<ctlVars, qVars, envVars, cVars, sVars>>
    /\ UNCHANGED <<xVars, outVars>>

\* client.idle_done()                                              (line 133)
W_IdleDone ==
    /\ wpc = "idle_done"
    /\ \E o \in IOOutcomes(idle_manager_client) :
         /\ faults' = Fault(o, idle_manager_client)
         /\ forced' = Forced(o, idle_manager_client)
         /\ exc' = IF o = "ok" THEN "none" ELSE o
         /\ wpc' = IF o = "ok" THEN "noop" ELSE "with_exit"
         /\ idleOn' = IF o = "ok" THEN 0 ELSE idleOn
    /\ UNCHANGED <<conn, nconn, pushed, selects, responses, ri, elapsed, mark>>
    /\ UNCHANGED <<ctlVars, qVars, cVars, sVars>>
    /\ UNCHANGED <<xVars, outVars>>

\* client.noop()                                                   (line 134)
W_Noop ==
    /\ wpc = "noop"
    /\ \E o \in IOOutcomes(idle_manager_client) :
         /\ faults' = Fault(o, idle_manager_client)
         /\ forced' = Forced(o, idle_manager_client)
         /\ exc' = IF o = "ok" THEN "none" ELSE o
         /\ wpc' = IF o = "ok" THEN "reidle" ELSE "with_exit"
    /\ UNCHANGED <<conn, nconn, idleOn, pushed, selects, responses, ri, elapsed, mark>>
    /\ UNCHANGED <<ctlVars, qVars, cVars, sVars>>
    /\ UNCHANGED <<xVars, outVars>>

\* client.idle(); time_started = time.monotonic()             (line 135-136)
W_ReIdle ==
    /\ wpc = "reidle"
    /\ \E o \in IOOutcomes(idle_manager_client) :
         /\ faults' = Fault(o, idle_manager_client)
         /\ forced' = Forced(o, idle_manager_client)
         /\ exc' = IF o = "ok" THEN "none" ELSE o
         /\ wpc' = IF o = "ok" THEN "inner_while" ELSE "with_exit"
         /\ idleOn' = IF o = "ok" THEN idle_manager_client ELSE idleOn
         /\ elapsed' = IF o = "ok" THEN 0 ELSE elapsed
    /\ UNCHANGED <<conn, nconn, pushed, selects, responses, ri, mark>>
    /\ UNCHANGED <<ctlVars, qVars, cVars, sVars>>
    /\ UNCHANGED <<xVars, outVars>>

\* Leaving "with client:" (line 115), normally or by an exception: __exit__
\* logs out, swallows whatever that raises, and closes the connection.
\* The timer is not read again before it is set afresh: the model forgets
\* it here, as it does the list of responses.
W_WithExit ==
    /\ wpc = "with_exit"
    /\ conn' = [conn EXCEPT ![idle_manager_client] = "closed"]
    /\ idleOn' = 0
    /\ wpc' = IF exc = "none" THEN "outer_while" ELSE Handler(exc)
    /\ mark' = NoMark
    /\ responses' = <<>> /\ ri' = 0 /\ elapsed' = 0
    /\ UNCHANGED <<nconn, faults, pushed, selects, exc, forced>>
    /\ UNCHANGED <<ctlVars, qVars, cVars, sVars>>
    /\ UNCHANGED <<xVars, outVars>>

\* except CONNECTION_ERRORS: logger.exception(...)             (line 137-138)
W_Except ==
    /\ wpc = "except"
    /\ wpc' = "outer_while"
    /\ UNCHANGED <<responses, ri, elapsed, exc, forced, mark>>
    /\ UNCHANGED <<ctlVars, qVars, envVars, cVars, sVars>>
    /\ UNCHANGED <<xVars, outVars>>

\* The IMAP command the worker's statement at position pc sends on its
\* connection: select_folder and idle (line 283-284), idle_done, noop and
\* idle (line 133-135), and the logout of the with block's exit (line 115).
\* idle_check only reads; get_client logs in on a connection of its own.
Command(pc) ==
    CASE pc = "select"    -> "SELECT"
      [] pc = "idle"      -> "IDLE"
      [] pc = "idle_done" -> "DONE"
      [] pc = "noop"      -> "NOOP"
      [] pc = "reidle"    -> "IDLE"
      [] pc = "with_exit" -> "LOGOUT"
      [] OTHER            -> "none"

Worker ==
    \/ W_While \/ W_GetClient \/ W_Select \/ W_Idle \/ W_InnerWhile
    \/ W_IdleCheck \/ W_Exists \/ W_Fetch \/ W_RefreshCheck
    \/ W_IdleDone \/ W_Noop \/ W_ReIdle \/ W_WithExit \/ W_Except


(***************************************************************************)
(* run: the consumer loop.                                                 *)
(***************************************************************************)
\* self._running = True                                            (line 142)
\* run is a method: there is a controller only if __init__ did not raise.
C_Call ==
    /\ cpc = "call"
    /\ factory = "built"
    /\ running' = TRUE
    /\ cpc' = "submit"
    /\ UNCHANGED <<idle_manager_client, executor_shutdown, control_signal, taken>>
    /\ UNCHANGED <<qVars, envVars, wVars, sVars>>
    /\ UNCHANGED <<xVars, outVars>>

\* ThreadPoolExecutor with two workers.
max_workers_two == 1 + 1

\* ThreadPoolExecutor(max_workers=1)                                (line 95)
max_workers == 1

\* A shutdown that does not wait for the running task (wait=False).
WorkerDone_noWait(pc) == TRUE

\* The pool thread that ran the first task has no task in hand.
WorkerDone(pc) == pc \in {"unstarted", "exited", "crashed"}

\* Threads of the pool: the first one, once a task was submitted, and the
\* ones spawned while it was busy.
PoolThreads == (IF wpc = "unstarted" THEN 0 ELSE 1) + extra

\* Whether submit finds the executor shut down.  shutdown() (line 103) marks
\* the executor at once and then waits for the pool: while graceful_shutdown
\* is at line 103 the mark is either set already or not yet.
SubmitRefused ==
    IF executor_shutdown THEN {TRUE}
    ELSE IF spc = "join" THEN {TRUE, FALSE}
    ELSE {FALSE}

\* self._idle_manager_executor.submit(self.idle_manager)           (line 143)
\* An executor that was shut down refuses the task with RuntimeError.
\* Otherwise the task goes to a pool thread with no task in hand (the first
\* submit spawns it), or to a thread spawned for it if the pool may grow,
\* or waits in the executor's work queue.
C_Submit ==
    /\ cpc = "submit"
    /\ \E refused \in SubmitRefused :
         IF refused
         THEN /\ cpc' = "raised"
              /\ executor_shutdown' = TRUE
              /\ UNCHANGED <<wpc, xVars>>
         ELSE /\ cpc' = "while"
              /\ executor_shutdown' = executor_shutdown
              /\ IF WorkerDone(wpc)
                 THEN wpc' = "outer_while" /\ UNCHANGED xVars
                 ELSE IF PoolThreads < max_workers
                 THEN extra' = extra + 1 /\ UNCHANGED <<wpc, work_queue>>
                 ELSE work_queue' = work_queue + 1 /\ UNCHANGED <<wpc, extra>>
    /\ UNCHANGED <<control_signal, taken, responses, ri, elapsed, exc, forced, mark>>
    /\ UNCHANGED <<running, idle_manager_client>>
    /\ UNCHANGED <<qVars, envVars, sVars>>
    /\ UNCHANGED outVars

\* while self._running:                                            (line 144)
C_While ==
    /\ cpc = "while"
    /\ cpc' = IF running THEN "get" ELSE "returned"
    /\ UNCHANGED <<control_signal, taken>>
    /\ UNCHANGED <<ctlVars, qVars, envVars, wVars, sVars>>
    /\ UNCHANGED <<xVars, outVars>>

\* control_signal = self._queue.get(): blocks while the queue is empty
\*                                                                 (line 145)
C_Get ==
    /\ cpc = "get"
    /\ queue # <<>>
    /\ control_signal' = QueueGet(queue).item
    /\ queue' = QueueGet(queue).rest
    /\ taken' = Append(taken, QueueGet(queue).item)
    /\ cpc' = "match"
    /\ UNCHANGED <<maxsize, warnings, putRaised, putLog>>
    /\ UNCHANGED <<ctlVars, envVars, wVars, sVars>>
    /\ UNCHANGED <<xVars, outVars>>

\* What a case of the match hands to the application's callback: the
\* EXISTS and FETCH cases write one log line each and call nothing, the
\* SHUTDOWN case breaks.                                       (line 146-152)
CallbackArgs(sig) ==
    CASE sig.signal_type = "EXISTS"   -> <<>>
      [] sig.signal_type = "FETCH"    -> <<>>
      [] sig.signal_type = "SHUTDOWN" -> <<>>

\* match control_signal.signal_type: EXISTS and FETCH are logged, SHUTDOWN
\* breaks                                                      (line 146-152)
\* The signal is not read again: the model forgets it.
C_Match ==
    /\ cpc = "match"
    /\ cpc' = IF control_signal.signal_type = "SHUTDOWN" THEN "returned" ELSE "while"
    /\ callbacks' = callbacks \o CallbackArgs(control_signal)
    /\ control_signal' = NoSignal
    /\ taken' = taken
    /\ UNCHANGED <<ctlVars, qVars, envVars, wVars, sVars>>
    /\ UNCHANGED <<xVars, kVars, fVars>>

Consumer == C_Call \/ C_Submit \/ C_While \/ C_Get \/ C_Match

(***************************************************************************)
(* graceful_shutdown, requested on a controller whose run() has begun,     *)
(* from a context of its own; a further request starts once the previous   *)
(* one has returned or raised.                                             *)
(***************************************************************************)
\* self._running = False                                       (line 100-101)
S_Flag ==
    /\ spc \in {"idle", "returned", "raised"}
    /\ cpc # "call"
    /\ stops < MaxStops
    /\ stops' = stops + 1
    /\ stopAt' = IF wpc = "idle_check" THEN "idle_check" ELSE "elsewhere"
    /\ running' = FALSE
    /\ spc' = "sock"
    /\ UNCHANGED <<idle_manager_client, executor_shutdown>>
    /\ UNCHANGED <<qVars, envVars, wVars, cVars>>
    /\ UNCHANGED <<xVars, outVars>>

\* What line 102 does with the client it reads: None has no socket()
\* (AttributeError), a closed socket refuses shutdown (OSError), a live one
\* is shut down.
SocketShutdown(client, st) ==
    IF client = None THEN "raise"
    ELSE IF st[client] = "closed" THEN "raise"
    ELSE "shut"

\* self._idle_manager_client.socket().shutdown(socket.SHUT_RDWR)   (line 102)
S_Sock ==
    /\ spc = "sock"
    /\ IF SocketShutdown(idle_manager_client, conn) = "raise"
       THEN /\ spc' = "raised"
            /\ conn' = conn
       ELSE /\ spc' = "join"
            /\ conn' = [conn EXCEPT ![idle_manager_client] = "shut"]
    /\ UNCHANGED <<nconn, idleOn, faults, pushed, selects, stops, stopAt>>
    /\ UNCHANGED <<ctlVars, qVars, wVars, cVars>>
    /\ UNCHANGED <<xVars, outVars>>

\* self._idle_manager_executor.shutdown()                          (line 103)
\* It marks the executor shut down, then waits until the pool threads have
\* finished the running task and the tasks still in the work queue.
S_Join ==
    /\ spc = "join"
    /\ WorkerDone(wpc)
    /\ work_queue = 0
    /\ extra = 0
    /\ executor_shutdown' = TRUE
    /\ spc' = "put"
    /\ UNCHANGED <<running, idle_manager_client, stops, stopAt>>
    /\ UNCHANGED <<qVars, envVars, wVars, cVars>>
    /\ UNCHANGED <<xVars, outVars>>

\* self.safe_put_nowait(ControlSignal.shutdown())                  (line 104)
S_Put ==
    /\ spc = "put"
    /\ safe_put_nowait(ControlSignal_shutdown)
    /\ spc' = "returned"
    /\ UNCHANGED <<stops, stopAt>>
    /\ UNCHANGED <<ctlVars, envVars, wVars, cVars>>
    /\ UNCHANGED <<xVars, outVars>>

\* The steps of a graceful_shutdown under way.
StopSteps == S_Sock \/ S_Join \/ S_Put

Stop == S_Flag \/ StopSteps

Next == Worker \/ Consumer \/ Stop

Spec == Init /\ [][Next]_vars

\* The threads are scheduled: the worker, the caller of run() and a
\* graceful_shutdown under way each take their next step when they can.
\* Nothing obliges anyone to request a stop.
Fairness ==
    /\ WF_vars(Worker)
    /\ WF_vars(Consumer)
    /\ WF_vars(StopSteps)

FairSpec == Spec /\ Fairness

\* The scheduled threads on the quiet mailbox.
QuietFairSpec == QuietInit /\ [][Next]_vars /\ Fairness


(***************************************************************************)
(* run() invoked again on the same controller, once the previous           *)
(* invocation has returned or raised.                                      *)
(***************************************************************************)
\* controller.run() once more.
C_Rerun ==
    /\ cpc \in {"returned", "raised"}
    /\ cpc' = "call"
    /\ UNCHANGED <<control_signal, taken>>
    /\ UNCHANGED <<ctlVars, qVars, envVars, wVars, sVars, xVars, outVars>>

\* The pool thread, its task over, takes the next one from the executor's
\* work queue: idle_manager starts afresh.
W_NextTask ==
    /\ wpc \in {"exited", "crashed"}
    /\ work_queue > 0
    /\ work_queue' = work_queue - 1
    /\ wpc' = "outer_while"
    /\ exc' = "none"
    /\ forced' = FALSE
    /\ UNCHANGED <<responses, ri, elapsed, mark, extra>>
    /\ UNCHANGED <<ctlVars, qVars, envVars, cVars, sVars, outVars>>

RerunNext == Next \/ C_Rerun \/ W_NextTask

RerunSpec == QuietInit /\ [][RerunNext]_vars

(***************************************************************************)
(* Construction: IngestController() in every small environment, then the   *)
(* controller's threads on the quiet mailbox.                              *)
(***************************************************************************)
CtorInit ==
    /\ InitController
    /\ FetchIdle
    /\ queue = <<>>
    /\ maxsize = DefaultMaxsize
    /\ pushed = MaxResponses
    /\ environ \in [EnvKeys -> EnvValues]
    /\ factory = "unbuilt"

\* IngestController(): line 93 builds the factory first; when it raises,
\* __init__ is left at once and there is no controller.        (line 92-97)
K_New ==
    /\ factory = "unbuilt"
    /\ factory' = get_imap_client_factory(environ)
    /\ UNCHANGED <<environ, callbacks, fVars>>
    /\ UNCHANGED <<ctlVars, qVars, envVars, wVars, cVars, sVars, xVars>>

CtorNext == K_New \/ Next

CtorSpec == CtorInit /\ [][CtorNext]_vars

(***************************************************************************)
(* The queue on its own: safe_put_nowait and get applied to queues of      *)
(* every small capacity and content.                                       *)
(***************************************************************************)
PutInit ==
    /\ InitController
    /\ FetchIdle
    /\ maxsize \in 0..MaxCap
    /\ queue \in SeqsUpTo(ControlSignal, MaxCap)
    /\ maxsize > 0 => Len(queue) <= maxsize
    /\ pushed = 0
    /\ Constructed

Q_Put ==
    /\ Len(putLog) < MaxPuts
    /\ \E sig \in ControlSignal : safe_put_nowait(sig)
    /\ UNCHANGED <<ctlVars, envVars, wVars, cVars, sVars>>
    /\ UNCHANGED <<xVars, outVars>>

Q_Get ==
    /\ queue # <<>>
    /\ control_signal' = QueueGet(queue).item
    /\ queue' = QueueGet(queue).rest
    /\ taken' = Append(taken, QueueGet(queue).item)
    /\ UNCHANGED <<cpc, maxsize, warnings, putRaised, putLog>>
    /\ UNCHANGED <<ctlVars, envVars, wVars, sVars>>
    /\ UNCHANGED <<xVars, outVars>>

PutNext == Q_Put \/ Q_Get

PutSpec == PutInit /\ [][PutNext]_vars


(***************************************************************************)
(* fetch_messages and fetch_part_ref, one action per statement, called one *)
(* after the other on one read connection while messages may be expunged   *)
(* from the folder.                                                        *)
(***************************************************************************)
controllerVars == <<ctlVars, qVars, envVars, wVars, cVars, sVars, xVars, callbacks, kVars>>

FetchInit ==
    /\ InitController
    /\ queue = <<>>
    /\ maxsize = DefaultMaxsize
    /\ pushed = 0
    /\ Constructed
    /\ mailbox \in Mailboxes
    /\ rconn = "open"
    /\ rfaults = 0
    /\ fpc = "ready"
    /\ calls = 0
    /\ unseen_messages = <<>>
    /\ response = <<>>
    /\ fi = 0
    /\ fetched_messages = <<>>
    /\ part = NoPart
    /\ pdata = NIL
    /\ result = NoResult
    /\ fcmds = <<>>
    /\ ferr = FALSE
    /\ pmiss = FALSE
    /\ outcomes = <<>>
    /\ PartsIdle

\* Another client deletes a message.
E_Expunge ==
    /\ \E u \in UIDs :
         /\ mailbox[u] # Gone
         /\ mailbox' = [mailbox EXCEPT ![u] = Gone]
    /\ UNCHANGED <<rconn, rfaults, fpc, calls, unseen_messages, response, fi,
                   fetched_messages, part, pdata, result, fcmds, ferr, pmiss, outcomes>>
    /\ UNCHANGED <<controllerVars, partVars>>

\* Outcomes of one command on the read connection: it succeeds, or raises a
\* connection error, after which the connection is broken.
ReadOutcomes ==
    IF rconn = "broken" THEN {"raise"}
    ELSE {"ok"} \cup (IF rfaults < MaxFaults THEN {"raise"} ELSE {})

ReadIO(o, cmd) ==
    /\ rconn' = IF o = "raise" THEN "broken" ELSE rconn
    /\ rfaults' = IF o = "raise" /\ rconn = "open" THEN rfaults + 1 ELSE rfaults
    /\ ferr' = (ferr \/ o = "raise")
    /\ fcmds' = Append(fcmds, cmd)

\* A call returns r.
Return(r) ==
    /\ result' = r
    /\ outcomes' = Append(outcomes, [miss |-> pmiss, kind |-> r.kind])
    /\ fpc' = "ready"

\* fetch_messages(client): fetched_messages = []               (line 213-215)
F_Call ==
    /\ fpc = "ready"
    /\ calls < MaxCalls
    /\ calls' = calls + 1
    /\ fpc' = "f_select"
    /\ fetched_messages' = <<>>
    /\ unseen_messages' = <<>> /\ response' = <<>> /\ fi' = 0
    /\ part' = NoPart /\ pdata' = NIL
    /\ result' = NoResult
    /\ fcmds' = <<>> /\ ferr' = FALSE /\ pmiss' = FALSE
    /\ UNCHANGED <<mailbox, rconn, rfaults, outcomes>>
    /\ UNCHANGED <<controllerVars, partVars>>

\* client.select_folder(folder)                                    (line 216)
F_Select ==
    /\ fpc = "f_select"
    /\ \E o \in ReadOutcomes :
         /\ ReadIO(o, "SELECT")
         /\ fpc' = IF o = "ok" THEN "f_search" ELSE "f_except"
    /\ UNCHANGED <<mailbox, calls, unseen_messages, response, fi, fetched_messages,
                   part, pdata, result, pmiss, outcomes>>
    /\ UNCHANGED <<controllerVars, partVars>>

\* unseen_messages = client.search(...)                       (line 217-219)
F_Search ==
    /\ fpc = "f_search"
    /\ \E o \in ReadOutcomes :
         /\ ReadIO(o, "SEARCH")
         /\ fpc' = IF o = "ok" THEN "f_empty" ELSE "f_except"
         /\ unseen_messages' = IF o = "ok" THEN Search(mailbox) ELSE unseen_messages
    /\ UNCHANGED <<mailbox, calls, response, fi, fetched_messages,
                   part, pdata, result, pmiss, outcomes>>
    /\ UNCHANGED <<controllerVars, partVars>>

\* A test that never finds the search empty.
NoMatches_never(uids) == FALSE

\* if unseen_messages_len == 0                                     (line 220)
NoMatches(uids) == Len(uids) = 0

\* if unseen_messages_len == 0: return fetched_messages       (line 220-221)
F_Empty ==
    /\ fpc = "f_empty"
    /\ IF NoMatches(unseen_messages)
       THEN Return(ListResult(fetched_messages))
       ELSE fpc' = "f_fetch" /\ UNCHANGED <<result, outcomes>>
    /\ UNCHANGED <<mailbox, rconn, rfaults, calls, unseen_messages, response, fi,
                   fetched_messages, part, pdata, fcmds, ferr, pmiss>>
    /\ UNCHANGED <<controllerVars, partVars>>

\* response = client.fetch(unseen_messages, [...])            (line 223-228)
F_Fetch ==
    /\ fpc = "f_fetch"
    /\ \E o \in ReadOutcomes :
         /\ ReadIO(o, "FETCH")
         /\ fpc' = IF o = "ok" THEN "f_loop" ELSE "f_except"
         /\ response' = IF o = "ok" THEN FetchReply(mailbox, unseen_messages) ELSE response
         /\ fi' = IF o = "ok" THEN 1 ELSE fi
    /\ UNCHANGED <<mailbox, calls, unseen_messages, fetched_messages,
                   part, pdata, result, pmiss, outcomes>>
    /\ UNCHANGED <<controllerVars, partVars>>

\* What the body of the loop does with one entry of the reply.  Line 230
\* and 231 read the header block and the body structure before the inner
\* try begins: a missing item raises KeyError to the outer except.  What
\* classify_parts, the required headers and the date raise is caught by the
\* inner except and the message is skipped.                    (line 229-260)
ProcessMessage(kind) ==
    CASE kind = "no_header_block"   -> "raise"
      [] kind = "no_bodystructure"  -> "raise"
      [] kind = "bad_bodystructure" -> "skip"
      [] kind = "no_message_id"     -> "skip"
      [] kind = "bad_date"          -> "skip"
      [] kind = "good"              -> "append"

\* for uid, body_data in response.items(): ...                 (line 229-260)
F_Loop ==
    /\ fpc = "f_loop"
    /\ IF fi > Len(response)
       THEN /\ fpc' = "f_return"
            /\ UNCHANGED <<fi, fetched_messages>>
       ELSE LET o == ProcessMessage(response[fi].kind) IN
            /\ fpc' = IF o = "raise" THEN "f_except" ELSE "f_loop"
            /\ fi' = IF o = "raise" THEN fi ELSE fi + 1
            /\ fetched_messages' =
                 IF o = "append" THEN Append(fetched_messages, response[fi].uid)
                 ELSE fetched_messages
    /\ UNCHANGED <<mailbox, rconn, rfaults, calls, unseen_messages, response,
                   part, pdata, result, fcmds, ferr, pmiss, outcomes>>
    /\ UNCHANGED <<controllerVars, partVars>>

\* return fetched_messages                                         (line 261)
F_Return ==
    /\ fpc = "f_return"
    /\ Return(ListResult(fetched_messages))
    /\ UNCHANGED <<mailbox, rconn, rfaults, calls, unseen_messages, response, fi,
                   fetched_messages, part, pdata, fcmds, ferr, pmiss>>
    /\ UNCHANGED <<controllerVars, partVars>>

\* An except clause that returns what was collected so far.
fetch_messages_except_list(fetched) == ListResult(fetched)

\* except Exception: logger.exception(...): the function ends without a
\* return statement, so it returns None.                       (line 262-263)
fetch_messages_except(fetched) == NoneResult

F_Except ==
    /\ fpc = "f_except"
    /\ Return(fetch_messages_except(fetched_messages))
    /\ UNCHANGED <<mailbox, rconn, rfaults, calls, unseen_messages, response, fi,
                   fetched_messages, part, pdata, fcmds, ferr, pmiss>>
    /\ UNCHANGED <<controllerVars, partVars>>

\* fetch_part_ref(client, part)                                    (line 265)
P_Call ==
    /\ fpc = "ready"
    /\ calls < MaxCalls
    /\ calls' = calls + 1
    /\ fpc' = "p_select"
    /\ \E p \in MessagePartRef : part' = p
    /\ pdata' = NIL
    /\ fetched_messages' = <<>>
    /\ unseen_messages' = <<>> /\ response' = <<>> /\ fi' = 0
    /\ result' = NoResult
    /\ fcmds' = <<>> /\ ferr' = FALSE /\ pmiss' = FALSE
    /\ UNCHANGED <<mailbox, rconn, rfaults, outcomes>>
    /\ UNCHANGED <<controllerVars, partVars>>

\* client.select_folder(part.folder)                               (line 267)
P_Select ==
    /\ fpc = "p_select"
    /\ \E o \in ReadOutcomes :
         /\ ReadIO(o, "SELECT")
         /\ fpc' = IF o = "ok" THEN "p_fetch" ELSE "p_except"
    /\ UNCHANGED <<mailbox, calls, unseen_messages, response, fi, fetched_messages,
                   part, pdata, result, pmiss, outcomes>>
    /\ UNCHANGED <<controllerVars, partVars>>

\* What the server replies to the FETCH of one section of one UID: nothing
\* for a UID that is gone; the section's bytes; for a section the message
\* does not have, NIL or no item at all.  An entry has the shape of the
\* entries of fetch_messages' reply, its kind being the section's item.
PartReplies(mb, p) ==
    IF mb[p.uid] = Gone THEN {<<>>}
    ELSE IF p.section = "1"
    THEN {<<[uid |-> p.uid, kind |-> d]>> : d \in SectionData}
    ELSE {<<[uid |-> p.uid, kind |-> NIL]>>, <<[uid |-> p.uid, kind |-> "nokey"]>>}

\* response = client.fetch([part.uid], [...])                      (line 268)
P_Fetch ==
    /\ fpc = "p_fetch"
    /\ \E o \in ReadOutcomes :
         /\ ReadIO(o, "FETCH")
         /\ IF o = "ok"
            THEN /\ fpc' = "p_lookup"
                 /\ \E r \in PartReplies(mailbox, part) : response' = r
                 /\ pmiss' = (mailbox[part.uid] = Gone \/ part.section = "9")
            ELSE /\ fpc' = "p_except"
                 /\ UNCHANGED <<response, pmiss>>
    /\ UNCHANGED <<mailbox, calls, unseen_messages, fi, fetched_messages,
                   part, pdata, result, outcomes>>
    /\ UNCHANGED <<controllerVars, partVars>>

\* data = response[part.uid][b"BODY[<section>]"]: KeyError when the UID or
\* the item is not in the reply.                                   (line 269)
P_Lookup ==
    /\ fpc = "p_lookup"
    /\ IF response = <<>> \/ response[1].kind = "nokey"
       THEN fpc' = "p_except" /\ pdata' = pdata
       ELSE fpc' = "p_decode" /\ pdata' = response[1].kind
    /\ UNCHANGED <<mailbox, rconn, rfaults, calls, unseen_messages, response, fi,
                   fetched_messages, part, result, fcmds, ferr, pmiss, outcomes>>
    /\ UNCHANGED <<controllerVars, partVars>>

\* decode_transfer_encoding(data, encoding): no encoding passes the data
\* through; base64.b64decode raises on None and on bytes it rejects;
\* quopri.decodestring raises on None; any other encoding passes the data
\* through.                                                    (line 202-211)
decode_transfer_encoding(d, encoding) ==
    IF encoding = NoEncoding THEN [raised |-> FALSE, value |-> d]
    ELSE CASE encoding = "base64" ->
                IF d = "b64" THEN [raised |-> FALSE, value |-> "decoded"]
                ELSE [raised |-> TRUE, value |-> NIL]
           [] encoding = "quoted-printable" ->
                IF d = NIL THEN [raised |-> TRUE, value |-> NIL]
                ELSE [raised |-> FALSE, value |-> "decoded"]
           [] OTHER -> [raised |-> FALSE, value |-> d]

\* return decode_transfer_encoding(data, part.encoding)            (line 270)
\* NIL is None: handed through, it is what the function returns.
P_Decode ==
    /\ fpc = "p_decode"
    /\ LET r == decode_transfer_encoding(pdata, part.encoding) IN
         IF r.raised
         THEN fpc' = "p_except" /\ UNCHANGED <<result, outcomes>>
         ELSE Return(IF r.value = NIL THEN NoneResult ELSE BytesResult(r.value))
    /\ UNCHANGED <<mailbox, rconn, rfaults, calls, unseen_messages, response, fi,
                   fetched_messages, part, pdata, fcmds, ferr, pmiss>>
    /\ UNCHANGED <<controllerVars, partVars>>

\* An except clause that returns empty bytes.
fetch_part_ref_except_empty == BytesResult("")

\* except Exception: logger.exception(...): returns None      (line 271-272)
fetch_part_ref_except == NoneResult

P_Except ==
    /\ fpc = "p_except"
    /\ Return(fetch_part_ref_except)
    /\ UNCHANGED <<mailbox, rconn, rfaults, calls, unseen_messages, response, fi,
                   fetched_messages, part, pdata, fcmds, ferr, pmiss>>
    /\ UNCHANGED <<controllerVars, partVars>>

FetchNext ==
    \/ E_Expunge
    \/ F_Call \/ F_Select \/ F_Search \/ F_Empty \/ F_Fetch \/ F_Loop
    \/ F_Return \/ F_Except
    \/ P_Call \/ P_Select \/ P_Fetch \/ P_Lookup \/ P_Decode \/ P_Except

FetchSpec == FetchInit /\ [][FetchNext]_vars

(***************************************************************************)
(* classify_parts and the choice of Message.body, applied to every small   *)
(* body structure; parse_params applied to every small parameter tuple.    *)
(***************************************************************************)
\* v = bytes2str(params[i + 1])                                    (line 327)
param_value_lowered(b) == lower(bytes2str(b))

param_value(b) == bytes2str(b)

\* for i in range(0, len(params) - 1, 2): param_struct[k] = v  (line 325-328)
RECURSIVE parse_params_from(_, _, _)
parse_params_from(p, i, d) ==
    IF i >= len(p) - 1 THEN d
    ELSE parse_params_from(p, i + 2,
             DictSet(d, lower(bytes2str(At(p, i))), param_value(At(p, i + 1))))

\* parse_params(params)                                        (line 320-329)
parse_params(p) ==
    IF Falsy(p) THEN EmptyDict ELSE parse_params_from(p, 0, EmptyDict)

\* parse_disposition(disposition): the name and the parameters
\*                                                             (line 306-314)
parse_disposition(d) ==
    IF Falsy(d) THEN [name |-> PNone, params |-> EmptyDict]
    ELSE IF d.t = "tuple"
    THEN LET disposition_name == bytes2str(At(d, 0)) IN
         [name   |-> IF disposition_name # "" THEN PStr(lower(disposition_name))
                     ELSE PNone,
          params |-> IF len(d) > 1 THEN parse_params(At(d, 1)) ELSE EmptyDict]
    ELSE [name |-> PStr(bytes2str(d)), params |-> EmptyDict]

\* The section of the i-th child under prefix                      (line 290)
child_section_fromZero(prefix, i) ==
    IF prefix # "" THEN prefix \o "." \o ToString(i - 1) ELSE ToString(i - 1)

child_section(prefix, i) ==
    IF prefix # "" THEN prefix \o "." \o ToString(i) ELSE ToString(i)

\* isinstance(body_structure, tuple) and isinstance(body_structure[0], list)
\*                                                                 (line 287)
is_multipart(bs) ==
    /\ ~Falsy(bs)
    /\ bs.t = "tuple"
    /\ At(bs, 0).t = "list"

\* iter_leaf_parts(body_structure, prefix): the (section, leaf) pairs in the
\* order they are yielded.                                     (line 286-294)
RECURSIVE iter_leaf_parts(_, _), iter_children(_, _, _)
iter_leaf_parts(bs, prefix) ==
    IF is_multipart(bs)
    THEN iter_children(At(bs, 0), prefix, 1)
    ELSE << [section |-> IF prefix # "" THEN prefix ELSE "TEXT", leaf |-> bs] >>

iter_children(children, prefix, i) ==
    IF i > len(children) THEN <<>>
    ELSE iter_leaf_parts(At(children, i - 1), child_section(prefix, i))
             \o iter_children(children, prefix, i + 1)

\* content_type = f"{part[0].lower()}/{part[1].lower()}"           (line 176)
content_type_of(p) ==
    lower(bytes2str(At(p, 0))) \o "/" \o lower(bytes2str(At(p, 1)))

\* a or b
Or(a, b) == IF ~Falsy(a) THEN a ELSE b

\* The reference built for one leaf, and its disposition.      (line 176-189)
ref_of(section, p) ==
    LET leaf_params == parse_params(IF len(p) > 2 THEN At(p, 2) ELSE PNone)
        disposition == parse_disposition(IF len(p) > 9 THEN At(p, 9) ELSE PNone)
    IN [section      |-> section,
        content_type |-> content_type_of(p),
        charset      |-> IF "charset" \in DOMAIN leaf_params
                         THEN PStr(lower(leaf_params["charset"])) ELSE PNone,
        encoding     |-> IF len(p) > 5 /\ ~Falsy(At(p, 5))
                         THEN PStr(lower(bytes2str(At(p, 5)))) ELSE PNone,
        size         |-> IF len(p) > 6 /\ At(p, 6).t = "int" THEN At(p, 6) ELSE PNone,
        filename     |-> Or(DictGet(disposition.params, "filename"),
                            DictGet(leaf_params, "name")),
        disposition  |-> disposition.name]

\* The MessagePartRef of a classified leaf: the reference without the
\* disposition, which classify_parts keeps in a local.
MessagePartRefOf(r) ==
    [section |-> r.section, content_type |-> r.content_type, charset |-> r.charset,
     encoding |-> r.encoding, size |-> r.size, filename |-> r.filename]

\* if content_type == "text/html": ... elif ... elif ...       (line 191-196)
type_bucket_calendarIsPlain(content_type) ==
    IF content_type = "text/html" THEN "html"
    ELSE IF content_type \in {"text/plain", "text/calendar"} THEN "plain"
    ELSE "none"

type_bucket(content_type) ==
    IF content_type = "text/html" THEN "html"
    ELSE IF content_type = "text/plain" THEN "plain"
    ELSE IF content_type = "text/calendar" THEN "calendar"
    ELSE "none"

\* if disposition == "attachment" or (disposition == "inline" and filename)
\*                                                                 (line 198)
is_attachment(r) ==
    \/ r.disposition = PStr("attachment")
    \/ r.disposition = PStr("inline") /\ ~Falsy(r.filename)

\* classify_parts: the four buckets filled from the leaves in the order they
\* were yielded.                                               (line 166-200)
classify_parts(leaves) ==
    LET refs == [i \in 1..Len(leaves) |-> ref_of(leaves[i].section, leaves[i].leaf)]
        Bucket(Test(_)) ==
            LET kept == SelectSeq(refs, Test)
            IN [i \in 1..Len(kept) |-> MessagePartRefOf(kept[i])]
    IN [html_parts       |-> Bucket(LAMBDA r : type_bucket(r.content_type) = "html"),
        plain_parts      |-> Bucket(LAMBDA r : type_bucket(r.content_type) = "plain"),
        calendar_parts   |-> Bucket(LAMBDA r : type_bucket(r.content_type) = "calendar"),
        attachment_parts |-> Bucket(is_attachment)]

\* max(parts, key=lambda m: m.size if m.size is not None else 0): the first
\* part no other part exceeds.                                 (line 163-164)
choose_largest_part_first(parts) == parts[1]

choose_largest_part(parts) ==
    LET size_key(m) == IF m.size.t # "None" THEN m.size.int ELSE 0
        best == CHOOSE i \in 1..Len(parts) :
                    /\ \A j \in 1..Len(parts) : size_key(parts[j]) <= size_key(parts[i])
                    /\ \A j \in 1..(i - 1) : size_key(parts[j]) < size_key(parts[i])
    IN parts[best]

\* One message's BODYSTRUCTURE, or one parameter tuple, is handed over.
PartsInit ==
    /\ InitController
    /\ queue = <<>>
    /\ maxsize = DefaultMaxsize
    /\ pushed = 0
    /\ Constructed
    /\ ReadIdle
    /\ leaf_parts = <<>>
    /\ html_parts = <<>>
    /\ plain_parts = <<>>
    /\ calendar_parts = <<>>
    /\ attachment_parts = <<>>
    /\ body_part = PNone
    /\ param_struct = EmptyDict
    /\ \/ /\ fpc = "iter_leaf_parts"
          /\ \E shape \in BodyShapes(MaxParts) : body_structure = BodyStructure(shape)
          /\ params = PNone
       \/ /\ fpc = "parse_params"
          /\ body_structure = PNone
          /\ params \in ParamTuples(MaxPairs)

\* for section, part in iter_leaf_parts(body_structure)            (line 173)
M_Walk ==
    /\ fpc = "iter_leaf_parts"
    /\ leaf_parts' = iter_leaf_parts(body_structure, "")
    /\ fpc' = "classify_parts"
    /\ UNCHANGED <<body_structure, html_parts, plain_parts, calendar_parts,
                   attachment_parts, body_part, params, param_struct>>
    /\ UNCHANGED <<mailbox, rconn, rfaults, calls, unseen_messages, response, fi,
                   fetched_messages, part, pdata, result, fcmds, ferr, pmiss, outcomes>>
    /\ UNCHANGED controllerVars

\* html_parts, plain_parts, calendar_parts, attachment_parts = classify_parts(...)
\*                                                             (line 234-240)
M_Classify ==
    /\ fpc = "classify_parts"
    /\ html_parts' = classify_parts(leaf_parts).html_parts
    /\ plain_parts' = classify_parts(leaf_parts).plain_parts
    /\ calendar_parts' = classify_parts(leaf_parts).calendar_parts
    /\ attachment_parts' = classify_parts(leaf_parts).attachment_parts
    /\ fpc' = "choose_largest_part"
    /\ UNCHANGED <<body_structure, leaf_parts, body_part, params, param_struct>>
    /\ UNCHANGED <<mailbox, rconn, rfaults, calls, unseen_messages, response, fi,
                   fetched_messages, part, pdata, result, fcmds, ferr, pmiss, outcomes>>
    /\ UNCHANGED controllerVars

\* body_part = choose_largest_part(html_parts) if html_parts else (
\*     choose_largest_part(plain_parts) if plain_parts else None)
\*                                                             (line 241-243)
M_Choose ==
    /\ fpc = "choose_largest_part"
    /\ body_part' = IF html_parts # <<>> THEN choose_largest_part(html_parts)
                    ELSE IF plain_parts # <<>> THEN choose_largest_part(plain_parts)
                    ELSE PNone
    /\ fpc' = "message"
    /\ UNCHANGED <<body_structure, leaf_parts, html_parts, plain_parts, calendar_parts,
                   attachment_parts, params, param_struct>>
    /\ UNCHANGED <<mailbox, rconn, rfaults, calls, unseen_messages, response, fi,
                   fetched_messages, part, pdata, result, fcmds, ferr, pmiss, outcomes>>
    /\ UNCHANGED controllerVars

\* param_struct = parse_params(params)                         (line 320-329)
M_ParseParams ==
    /\ fpc = "parse_params"
    /\ param_struct' = parse_params(params)
    /\ fpc' = "parsed"
    /\ UNCHANGED <<body_structure, leaf_parts, html_parts, plain_parts, calendar_parts,
                   attachment_parts, body_part, params>>
    /\ UNCHANGED <<mailbox, rconn, rfaults, calls, unseen_messages, response, fi,
                   fetched_messages, part, pdata, result, fcmds, ferr, pmiss, outcomes>>
    /\ UNCHANGED controllerVars

PartsNext == M_Walk \/ M_Classify \/ M_Choose \/ M_ParseParams

PartsSpec == PartsInit /\ [][PartsNext]_vars

(***************************************************************************)
(* Properties.                                                             *)
(***************************************************************************)
\* The worker is blocked in an idle wait of an IDLE session on a live
\* connection that it owns.
Idling ==
    /\ wpc = "idle_check"
    /\ idle_manager_client # None
    /\ conn[idle_manager_client] = "open"
    /\ idleOn = idle_manager_client

\* C1: a connection-class error raised in the connect/select/IDLE/idle_check
\* cycle while no stop has been requested does not end the worker: it leads
\* to the worker idling again on a live connection, unless a stop is
\* requested meanwhile or the factory fails for good (login rejected).
C1_ReconnectsAfterConnectionError ==
    (/\ exc \in ErrorClasses
     /\ wpc \in {"with_exit", "except"}
     /\ stops = 0)
    ~> (\/ Idling
        \/ stops > 0
        \/ (wpc = "crashed" /\ exc = "LoginError"))

\* C1 witness: after a genuine connection error, with no stop requested, the
\* worker idles on a second connection and the first one is closed.
C1_Witness ==
    /\ Idling
    /\ stops = 0
    /\ faults >= 1
    /\ idle_manager_client = 2
    /\ conn[1] = "closed"

\* C2: once the worker has met the connection error of a forced close, the
\* stop flag is down, the worker is on its way out (unwinding, in the except
\* clause, at the reconnect decision or gone) and never back at the factory.
C2_ForcedCloseIsTerminal ==
    forced =>
        /\ ~running
        /\ wpc \in {"with_exit", "except", "outer_while", "exited"}

\* C2 witness: the worker was idling when stop was requested, met the forced
\* close, and has exited having made a single connection.
C2_Witness ==
    /\ forced
    /\ stopAt = "idle_check"
    /\ wpc = "exited"
    /\ nconn = 1

\* C3: a stop requested while the worker is blocked in its idle wait returns
\* (it does not raise), and when it has returned the worker has exited.
C3_StopWhileIdlingReturns ==
    /\ (stopAt = "idle_check" /\ stops = 1) => spc # "raised"
    /\ spc = "returned" => wpc \in {"exited", "crashed"}

\* C4: graceful_shutdown never raises, whatever the state it is invoked in.
C4_StopNeverRaises == spc # "raised"

\* C5: after a stop request on a running controller, run() returns.
C5_RunReturnsAfterStop == (stops > 0) ~> (cpc = "returned")

\* C6: a put is never refused or left pending; at capacity it drops the
\* signal, leaves the queue as it was and logs exactly one warning; below
\* capacity it appends the signal and logs nothing; no error leaves it.
C6_PutDropsWhenFull ==
    /\ [](Len(putLog) < MaxPuts => ENABLED Q_Put)
    /\ [][putLog' # putLog =>
            /\ ~putRaised'
            /\ IF maxsize > 0 /\ Len(queue) >= maxsize
               THEN queue' = queue /\ warnings' = warnings + 1
               ELSE /\ queue' = Append(queue, putLog'[Len(putLog')])
                    /\ warnings' = warnings]_vars

\* C6 witness: a queue of capacity 1 holding one Exists signal, on which one
\* further put of Exists was tried and dropped with one warning.
C6_Witness ==
    /\ maxsize = 1
    /\ queue = <<ControlSignal_exists>>
    /\ putLog = <<ControlSignal_exists>>
    /\ taken = <<>>
    /\ warnings = 1

\* C7: the number of queued signals never exceeds the capacity the queue was
\* constructed with.
C7_QueueBounded == Len(queue) <= maxsize

\* a is b with some of its elements left out.
RECURSIVE IsSubseq(_, _)
IsSubseq(a, b) ==
    IF a = <<>> THEN TRUE
    ELSE IF b = <<>> THEN FALSE
    ELSE IF Head(a) = Head(b) THEN IsSubseq(Tail(a), Tail(b))
    ELSE IsSubseq(a, Tail(b))

\* C8: what the consumer took, followed by what is still queued, is the
\* sequence of signals put with some of them left out: same order, nothing
\* twice, nothing that was not put.
C8_Fifo == IsSubseq(taken \o queue, putLog)

\* C8 witness: the consumer took three signals, the first two different and
\* the last one Shutdown.
C8_Witness ==
    /\ Len(taken) = 3
    /\ taken[1] # taken[2]
    /\ taken[3] = ControlSignal_shutdown

RECURSIVE OwedFetches(_)
OwedFetches(rs) ==
    IF rs = <<>> THEN <<>>
    ELSE (IF Head(rs).kind = "FETCH"
          THEN <<[signal_type |-> "FETCH", data |-> Head(rs).data]>>
          ELSE <<>>) \o OwedFetches(Tail(rs))

\* The Fetch signals of a sequence of signals.
RECURSIVE OnlyFetch(_)
OnlyFetch(sigs) ==
    IF sigs = <<>> THEN <<>>
    ELSE (IF Head(sigs).signal_type = "FETCH" THEN <<Head(sigs)>> ELSE <<>>)
            \o OnlyFetch(Tail(sigs))

\* C10: once the for loop over an idle wait's responses is over, the Fetch
\* signals put since the wait returned are one per FETCH response, with its
\* payload, in the order of the responses; and from then on to the next idle
\* wait the worker is on the same connection with no folder select issued.
C10_FetchPerResponse ==
    /\ wpc = "refresh_check"
        => OnlyFetch(SubSeq(putLog, mark.start + 1, Len(putLog))) = OwedFetches(responses)
    /\ (wpc \in {"refresh_check", "inner_while", "idle_check", "idle_done", "noop", "reidle"}
            /\ mark.conn # 0)
        => /\ idle_manager_client = mark.conn
           /\ selects = mark.selects

\* C10 witness: the for loop is over for FETCH responses with payloads 2 and
\* 1, in that order, on the first connection, no stop requested.
C10_Witness ==
    /\ wpc = "refresh_check"
    /\ stops = 0
    /\ Len(responses) = 2
    /\ responses[1] = [kind |-> "FETCH", data |-> 2]
    /\ responses[2] = [kind |-> "FETCH", data |-> 1]
    /\ putLog = <<ControlSignal_fetch(2), ControlSignal_fetch(1)>>
    /\ selects = 1

\* The signals other than Shutdown of a sequence of signals.
BeforeShutdown(sigs) == SelectSeq(sigs, LAMBDA x : x.signal_type # "SHUTDOWN")

\* C11: when the consumer is done with the signals it took, the callback was
\* invoked once for each Exists and Fetch signal among them.
C11_SignalsReachCallback ==
    cpc \in {"while", "get", "returned"}
        => Len(callbacks) = Len(BeforeShutdown(taken))

\* idle_manager tasks in execution, on any pool thread.
Watchers == (IF WorkerDone(wpc) THEN 0 ELSE 1) + extra

\* C12: at most one idle_manager task is in execution, and an active IDLE
\* session is on the connection that task holds, inside its with block.
C12_OneWatcherOneSession ==
    /\ Watchers <= 1
    /\ idleOn # 0 =>
          /\ idleOn = idle_manager_client
          /\ wpc \in {"inner_while", "idle_check", "exists", "fetch", "refresh_check",
                       "idle_done", "reidle", "with_exit"}

\* C12 witness: run() was invoked again while the watcher of the first
\* invocation idles; the second task waits in the executor's work queue.
C12_Witness ==
    /\ Idling
    /\ work_queue = 1
    /\ cpc = "get"

\* C13: no statement of the worker sends a command other than DONE on its
\* connection while IDLE is active on it.  Stated for the case that leaves
\* no doubt: the connection is intact and no exception is in flight.
C13_NoCommandMidIdle ==
    [][(/\ wpc' # wpc
        /\ Command(wpc) \notin {"none", "DONE"}
        /\ exc = "none"
        /\ conn[idle_manager_client] = "open")
       => idleOn # idle_manager_client]_vars

\* The connections made by the factory and not closed.
NotClosed == {c \in Conns : conn[c] \in {"open", "shut"}}

\* C14: at most one connection made for the watcher is not closed, and none
\* once the watcher is gone.
C14_ConnectionsClosed ==
    /\ Cardinality(NotClosed) <= 1
    /\ wpc \in {"exited", "crashed"} => NotClosed = {}

\* C15: once a rejected login has ended the watcher, no further connection
\* is attempted, and the caller of run() gets out of run(): it returns or
\* raises instead of waiting for signals for ever.  The second half is
\* stated for the runs in which nobody requests a stop.
C15_LoginRejectedSurfaces ==
    /\ [][(wpc = "crashed" /\ exc = "LoginError")
            => (wpc' = "crashed" /\ nconn' = nconn)]_vars
    /\ (wpc = "crashed" /\ exc = "LoginError" /\ stops = 0)
            ~> (cpc \in {"returned", "raised"} \/ stops > 0)

\* One of the three settings is not set, or set to the empty string.
MissingSetting == \E k \in EnvKeys : environ[k] \in {Unset, ""}

\* C16: with a setting missing, construction can only raise; no connection
\* is ever made, no watcher is started and run() never begins.
C16_MissingConfigFailsConstruction ==
    MissingSetting =>
        /\ factory \in {"unbuilt", "raised"}
        /\ nconn = 0
        /\ wpc = "unstarted"
        /\ cpc = "call"
        /\ ~running

\* C16 witness: host and user name are set, the password is the empty
\* string, and construction has raised.
C16_Witness ==
    /\ environ["IMAP_HOST"] = "value"
    /\ environ["IMAP_USERNAME"] = "value"
    /\ environ["IMAP_PASSWORD"] = ""
    /\ factory = "raised"

\* The last call was of fetch_messages, and it is over.
FetchMessagesOver == fpc = "ready" /\ calls > 0 /\ part = NoPart

\* C17: a connection error raised by the folder select, the search or the
\* batch fetch ends the call there (no later statement of the try block
\* runs), and the call's outcome is the failure outcome, None, never a list.
C17_FetchFailureSurfaces ==
    /\ fpc \in {"f_search", "f_empty", "f_fetch", "f_loop", "f_return"} => ~ferr
    /\ (FetchMessagesOver /\ ferr)
         => result = NoneResult

\* C17 witness: the search matched, the batch fetch raised, the call
\* returned None.
C17_Witness ==
    /\ FetchMessagesOver
    /\ ferr
    /\ unseen_messages # <<>>
    /\ fcmds = <<"SELECT", "SEARCH", "FETCH">>
    /\ result = NoneResult

\* The UIDs of the entries of a reply that parse, in the reply's order.
RECURSIVE Parsed(_)
Parsed(resp) ==
    IF resp = <<>> THEN <<>>
    ELSE (IF Head(resp).kind = "good" THEN <<Head(resp).uid>> ELSE <<>>)
            \o Parsed(Tail(resp))

\* C18: when the batch fetch succeeded, the call returns exactly the list of
\* the messages of the reply that parse, whatever the other messages are.
C18_ParseFailureSkipsOne ==
    (FetchMessagesOver /\ ~ferr /\ fcmds = <<"SELECT", "SEARCH", "FETCH">>)
        => result = ListResult(Parsed(response))

\* The last call was of fetch_part_ref, and it is over.
FetchPartOver == fpc = "ready" /\ part # NoPart

\* C19: a call for a UID or a section that is not there returns the failure
\* outcome, None, and leaves the connection open; a call that returns bytes
\* found its part.
C19_MissingPartFails ==
    /\ (FetchPartOver /\ pmiss) => (result = NoneResult /\ rconn = "open")
    /\ (FetchPartOver /\ result.kind = "bytes") => ~pmiss

\* C19 witness: a call for a missing part returned None and the next call on
\* the same connection returned bytes.
C19_Witness ==
    /\ FetchPartOver
    /\ outcomes = <<[miss |-> TRUE, kind |-> "None"], [miss |-> FALSE, kind |-> "bytes"]>>

\* C20: a search that matches nothing ends the call with the empty list,
\* after the folder select and the search and no other command; the fetch
\* is reached only with matches.
C20_NoMatchesEmptyList ==
    /\ fpc \in {"f_fetch", "f_loop", "f_return"} => unseen_messages # <<>>
    /\ (FetchMessagesOver /\ ~ferr /\ unseen_messages = <<>>)
         => (result = ListResult(<<>>) /\ fcmds = <<"SELECT", "SEARCH">>)

\* C20 witness: the folder holds no message, and the call returned the empty
\* list after SELECT and SEARCH.
C20_Witness ==
    /\ FetchMessagesOver
    /\ ~ferr
    /\ unseen_messages = <<>>
    /\ result = ListResult(<<>>)
    /\ fcmds = <<"SELECT", "SEARCH">>

\* The leaves the walk yielded whose lowercased content type is ct, by their
\* place in the walk, and the size the server gave for a leaf, an absent
\* size counting as 0.
LeavesOfType(ct) ==
    {i \in 1..Len(leaf_parts) : content_type_of(leaf_parts[i].leaf) = ct}

SizeOfLeaf(i) ==
    LET p == leaf_parts[i].leaf
    IN IF len(p) > 6 /\ At(p, 6).t = "int" THEN At(p, 6).int ELSE 0

\* body_part refers to a leaf of S that no leaf of S exceeds in size.
LargestOf(S) ==
    /\ body_part # PNone
    /\ \E i \in S :
         /\ body_part.section = leaf_parts[i].section
         /\ \A j \in S : SizeOfLeaf(j) <= SizeOfLeaf(i)

\* C21: Once the body of a Message is chosen it is a text/html leaf of
\* maximal size if the structure has a text/html leaf, otherwise a
\* text/plain leaf of maximal size if it has one, otherwise None; an absent
\* size counts as the smallest size, 0.
C21_BodyIsLargestHtmlElsePlain ==
    fpc = "message" =>
        IF LeavesOfType("text/html") # {} THEN LargestOf(LeavesOfType("text/html"))
        ELSE IF LeavesOfType("text/plain") # {} THEN LargestOf(LeavesOfType("text/plain"))
        ELSE body_part = PNone

\* An HTML leaf without a size comes first, a larger HTML leaf next and a
\* plain leaf larger than both last: the body is the second leaf.
C21_Witness ==
    /\ fpc = "message"
    /\ Len(leaf_parts) = 3
    /\ LeavesOfType("text/html") = {1, 2}
    /\ LeavesOfType("text/plain") = {3}
    /\ SizeOfLeaf(1) < SizeOfLeaf(2)
    /\ SizeOfLeaf(2) < SizeOfLeaf(3)
    /\ body_part.section = leaf_parts[2].section

\* The paths of child indexes, counted from 1, that lead from bs to its
\* leaves, depth first and left to right; the part a path leads to; a path
\* written with dots.
RECURSIVE LeafPaths(_), PartAt(_, _), Dotted(_)
LeafPaths(bs) ==
    IF ~is_multipart(bs) THEN << <<>> >>
    ELSE LET Below[i \in 0..len(At(bs, 0))] ==
                 IF i = 0 THEN <<>>
                 ELSE LET sub == LeafPaths(At(At(bs, 0), i - 1))
                      IN Below[i - 1] \o [k \in 1..Len(sub) |-> <<i>> \o sub[k]]
         IN Below[len(At(bs, 0))]

PartAt(bs, path) ==
    IF path = <<>> THEN bs ELSE PartAt(At(At(bs, 0), path[1] - 1), Tail(path))

Dotted(path) ==
    IF path = <<>> THEN ""
    ELSE IF Len(path) = 1 THEN ToString(path[1])
    ELSE ToString(path[1]) \o "." \o Dotted(Tail(path))

\* The walk of body_structure was made.
Walked == fpc \in {"classify_parts", "choose_largest_part", "message"}

\* The walk yielded the leaves in depth-first order, one entry per leaf.
OneEntryPerLeaf ==
    /\ Len(leaf_parts) = Len(LeafPaths(body_structure))
    /\ \A i \in 1..Len(leaf_parts) :
         leaf_parts[i].leaf = PartAt(body_structure, LeafPaths(body_structure)[i])

SectionsDistinct ==
    \A i, j \in 1..Len(leaf_parts) :
        leaf_parts[i].section = leaf_parts[j].section => i = j

\* C22 as stated: the walk yields one section per leaf in depth-first
\* left-to-right order, each the dotted path of its leaf from the root,
\* pairwise distinct.
C22_SectionsAreDottedPaths ==
    Walked =>
        /\ OneEntryPerLeaf
        /\ \A i \in 1..Len(leaf_parts) :
             leaf_parts[i].section = Dotted(LeafPaths(body_structure)[i])
        /\ SectionsDistinct

\* C22 amended: as stated when the root is a multipart; a structure that is
\* one leaf yields the single section "TEXT", which is no path.
C22_SectionsOfWalk ==
    Walked =>
        /\ OneEntryPerLeaf
        /\ IF is_multipart(body_structure)
           THEN \A i \in 1..Len(leaf_parts) :
                    leaf_parts[i].section = Dotted(LeafPaths(body_structure)[i])
           ELSE leaf_parts[1].section = "TEXT"
        /\ SectionsDistinct

\* The structure [[leaf, leaf], leaf] was walked.
C22_Witness ==
    /\ Walked
    /\ LeafPaths(body_structure) = << <<1, 1>>, <<1, 2>>, <<2>> >>
    /\ [i \in 1..Len(leaf_parts) |-> leaf_parts[i].section] = <<"1.1", "1.2", "2">>

\* classify_parts has returned its four buckets.
Classified == fpc \in {"choose_largest_part", "message"}

\* How often the leaf walked as number i is referred to in a bucket.
CountIn(bucket, i) ==
    Cardinality({k \in 1..Len(bucket) : bucket[k].section = leaf_parts[i].section})

BucketsOf(i) ==
    CountIn(html_parts, i) + CountIn(plain_parts, i)
        + CountIn(calendar_parts, i) + CountIn(attachment_parts, i)

\* C23: Every leaf is in the html, plain or calendar bucket exactly when its
\* lowercased content type is text/html, text/plain or text/calendar, hence
\* in at most one of the three, whatever the attachments bucket holds; it is
\* in at most two of the four buckets, and when in two, one is attachments.
C23_OneTypeBucketPerLeaf ==
    Classified =>
        \A i \in 1..Len(leaf_parts) :
            LET ct == content_type_of(leaf_parts[i].leaf) IN
            /\ CountIn(html_parts, i) = IF ct = "text/html" THEN 1 ELSE 0
            /\ CountIn(plain_parts, i) = IF ct = "text/plain" THEN 1 ELSE 0
            /\ CountIn(calendar_parts, i) = IF ct = "text/calendar" THEN 1 ELSE 0
            /\ CountIn(attachment_parts, i) <= 1
            /\ BucketsOf(i) <= 2
            /\ BucketsOf(i) = 2 => CountIn(attachment_parts, i) = 1

\* One structure with a leaf in two buckets, a leaf in one and a leaf in
\* none; the leaf in two is an HTML leaf written in capitals or not.
C23_Witness ==
    /\ Classified
    /\ \E i, j, k \in 1..Len(leaf_parts) :
         /\ BucketsOf(i) = 2 /\ CountIn(html_parts, i) = 1
         /\ BucketsOf(j) = 1 /\ CountIn(plain_parts, j) = 1
         /\ BucketsOf(k) = 0

\* The disposition the server sent for a leaf.  RFC 3501 puts it after the
\* md5 field: field 9 of a text leaf, which has a lines field, and field 8
\* of a leaf of another media type, which has none.
DispositionSent(p) ==
    LET at == IF lower(bytes2str(At(p, 0))) = "text" THEN 9 ELSE 8
    IN IF len(p) > at THEN At(p, at) ELSE PNone

\* Its name in lower case, whether the name came alone or with parameters,
\* and its filename parameter.
DispositionNameSent(p) ==
    LET d == DispositionSent(p)
    IN IF d.t = "tuple" THEN lower(bytes2str(At(d, 0)))
       ELSE IF d.t = "bytes" THEN lower(bytes2str(d))
       ELSE ""

FilenameSent(p) ==
    LET d == DispositionSent(p)
        dparams == IF d.t = "tuple" /\ len(d) > 1 THEN parse_params(At(d, 1)) ELSE EmptyDict
        tparams == parse_params(IF len(p) > 2 THEN At(p, 2) ELSE PNone)
    IN Or(DictGet(dparams, "filename"), DictGet(tparams, "name"))

\* C24: A leaf is in the attachments bucket if and only if its disposition
\* is "attachment", in any letter case and shape, or its disposition is
\* "inline" and it has a filename: the disposition's filename parameter,
\* otherwise the name parameter of the content type.
C24_AttachmentsByDisposition ==
    Classified =>
        \A i \in 1..Len(leaf_parts) :
            CountIn(attachment_parts, i) = 1
                <=> \/ DispositionNameSent(leaf_parts[i].leaf) = "attachment"
                    \/ /\ DispositionNameSent(leaf_parts[i].leaf) = "inline"
                       /\ ~Falsy(FilenameSent(leaf_parts[i].leaf))

\* parse_params has returned; the pairs of its argument, counted from 1, and
\* the key and the value of a pair as the server sent them.
ParamsParsed == fpc = "parsed"

Pairs == IF Falsy(params) THEN {} ELSE 1..(len(params) \div 2)

KeySent(i)   == bytes2str(At(params, 2 * i - 2))
ValueSent(i) == bytes2str(At(params, 2 * i - 1))

\* C25 as stated: the mapping has one entry per pair, under the lowercased
\* key and holding the value in its original case; None and the empty tuple
\* yield the empty mapping.
C25_OneEntryPerPair ==
    ParamsParsed =>
        /\ DOMAIN param_struct = {lower(KeySent(i)) : i \in Pairs}
        /\ Cardinality(DOMAIN param_struct) = Cardinality(Pairs)
        /\ \A i \in Pairs : param_struct[lower(KeySent(i))] = ValueSent(i)
        /\ Falsy(params) => param_struct = EmptyDict

\* C25 amended: the mapping has one entry per distinct lowercased key, and
\* it holds the value, in its original case, of the last pair with that key.
C25_LastPairPerKey ==
    ParamsParsed =>
        /\ DOMAIN param_struct = {lower(KeySent(i)) : i \in Pairs}
        /\ \A i \in Pairs :
             (\A j \in Pairs : j > i => lower(KeySent(j)) # lower(KeySent(i)))
                 => param_struct[lower(KeySent(i))] = ValueSent(i)
        /\ Falsy(params) => param_struct = EmptyDict

\* A tuple of two pairs with different keys was parsed: a key in capitals
\* is stored in lower case and its value keeps its capital letter.
C25_Witness ==
    /\ ParamsParsed
    /\ Cardinality(Pairs) = 2
    /\ Cardinality(DOMAIN param_struct) = 2
    /\ KeySent(1) = "NAME"
    /\ ValueSent(1) = "A.txt"
    /\ param_struct["name"] = "A.txt"

\* The step is a statement of the worker that puts a signal: line 126 on a
\* batch with an EXISTS response, or line 129 on a FETCH response.
WorkerStep == wpc' # wpc \/ ri' # ri

Emits ==
    \/ wpc = "exists" /\ \E i \in 1..Len(responses) : responses[i].kind = "EXISTS"
    \/ wpc = "fetch" /\ ri <= Len(responses) /\ responses[ri].kind = "FETCH"

\* C26: The worker puts a signal only while it handles an idle wait that
\* returned an EXISTS or a FETCH response: every other step of the worker,
\* an idle wait that timed out, a response of another kind, a refresh and a
\* reconnect among them, leaves the queue and the record of puts unchanged,
\* and every signal put other than Shutdown is put by such a step.
C26_OnlyExistsOrFetchPuts ==
    [][ /\ (WorkerStep /\ ~Emits) => UNCHANGED <<queue, putLog, warnings>>
        /\ (putLog' # putLog /\ putLog'[Len(putLog')] # ControlSignal_shutdown)
               => (WorkerStep /\ Emits) ]_vars

\* The worker has reconnected, has been handed a response that is neither
\* EXISTS nor FETCH, has waited out idle waits until the refresh fell due
\* and is refreshing: nothing was put.
C26_Witness ==
    /\ wpc = "reidle"
    /\ nconn = 2
    /\ pushed > 0
    /\ stops = 0
    /\ putLog = <<>>
    /\ queue = <<>>

\* The signals lines 125-129 put for a batch of responses.
RECURSIVE FetchSignalsOf(_)
FetchSignalsOf(rs) ==
    IF rs = <<>> THEN <<>>
    ELSE (IF Head(rs).kind = "FETCH" THEN <<ControlSignal_fetch(Head(rs).data)>> ELSE <<>>)
             \o FetchSignalsOf(Tail(rs))

BatchSignals(rs) ==
    (IF \E i \in 1..Len(rs) : rs[i].kind = "EXISTS" THEN <<ControlSignal_exists>> ELSE <<>>)
        \o FetchSignalsOf(rs)

\* What the worker has handed to safe_put_nowait since its idle wait returned.
PutSinceWait ==
    SelectSeq(SubSeq(putLog, mark.start + 1, Len(putLog)),
              LAMBDA sig : sig # ControlSignal_shutdown)

\* The statement at the worker's position raised a connection error.
Raised == exc' # "none" /\ wpc' = "with_exit"

\* C27: After an idle wait whose signals were all put, the worker refreshes
\* exactly when more than idle_restart_seconds have elapsed since IDLE was
\* issued: it sends DONE, then NOOP, then IDLE on the connection it holds,
\* each once the one before succeeded, sets the timer to zero with the new
\* IDLE and is back at the head of the idle loop; at or below the threshold
\* it goes back to the idle loop and sends nothing.
C27_RefreshWhenDue ==
    [][ /\ (wpc = "refresh_check" /\ wpc' # wpc) =>
              /\ PutSinceWait = BatchSignals(responses)
              /\ wpc' = IF elapsed > idle_restart_seconds THEN "idle_done" ELSE "inner_while"
        /\ (wpc = "idle_done" /\ wpc' # wpc) =>
              \/ wpc' = "noop" /\ idleOn = idle_manager_client /\ idleOn' = 0
              \/ Raised
        /\ (wpc = "noop" /\ wpc' # wpc) =>
              \/ wpc' = "reidle" /\ idleOn' = 0
              \/ Raised
        /\ (wpc = "reidle" /\ wpc' # wpc) =>
              \/ wpc' = "inner_while" /\ idleOn' = idle_manager_client /\ elapsed' = 0
              \/ Raised
        /\ (wpc \in {"refresh_check", "idle_done", "noop", "reidle"}) =>
              idle_manager_client' = idle_manager_client
        /\ (wpc' = "idle_done" /\ wpc' # wpc) =>
              wpc = "refresh_check" /\ elapsed > idle_restart_seconds
        /\ (wpc' = "noop" /\ wpc' # wpc) => wpc = "idle_done"
        /\ (wpc' = "reidle" /\ wpc' # wpc) => wpc = "noop" ]_vars

\* The refresh is under way: the timer is past the threshold, the signals
\* of the last idle wait were put, DONE and NOOP were sent on the open
\* connection and IDLE is about to be sent again.
C27_Witness ==
    /\ wpc = "reidle"
    /\ elapsed > idle_restart_seconds
    /\ idleOn = 0
    /\ conn[idle_manager_client] = "open"
    /\ mark # NoMark
    /\ PutSinceWait # <<>>

\* C28: A Shutdown signal is put only when the worker has exited and no
\* task waits in the executor, and no signal is put once a Shutdown signal
\* was put except another Shutdown: no Exists or Fetch signal follows a
\* Shutdown signal.
C28_ShutdownIsLast ==
    [][ putLog' # putLog =>
          IF putLog'[Len(putLog')] = ControlSignal_shutdown
          THEN wpc \in {"exited", "crashed"} /\ work_queue = 0 /\ extra = 0
          ELSE \A i \in 1..Len(putLog) : putLog[i] # ControlSignal_shutdown ]_vars

\* The worker put an Exists and a Fetch signal, was stopped and exited, and
\* graceful_shutdown then put Shutdown.
C28_Witness ==
    /\ Len(putLog) = 3
    /\ putLog[1] = ControlSignal_exists
    /\ putLog[2].signal_type = "FETCH"
    /\ putLog[3] = ControlSignal_shutdown
    /\ wpc = "exited"
    /\ spc = "returned"

\* C29: Of the signals the worker puts for the batch of one idle wait, only
\* the first can be an Exists signal, so there is at most one and no Fetch
\* signal of the batch precedes it; once the batch is handled, it was put if
\* the batch holds an EXISTS response, wherever in the batch.
C29_OneExistsFirst ==
    mark # NoMark =>
        LET batch == PutSinceWait
        IN  /\ \A i \in 2..Len(batch) : batch[i] # ControlSignal_exists
            /\ (wpc = "refresh_check" /\ \E i \in 1..Len(responses) : responses[i].kind = "EXISTS")
                   => (batch # <<>> /\ batch[1] = ControlSignal_exists)

\* A batch with a FETCH response ahead of an EXISTS response was handled:
\* the Exists signal was put first, the Fetch signal after it.
C29_Witness ==
    /\ wpc = "refresh_check"
    /\ Len(responses) = 2
    /\ responses[1].kind = "FETCH"
    /\ responses[2].kind = "EXISTS"
    /\ PutSinceWait = <<ControlSignal_exists, ControlSignal_fetch(responses[1].data)>>

\* C30: When the worker has lost its connection to a connection error and
\* graceful_shutdown has cleared the stop flag, the worker obtains no new
\* connection, and the connection line 102 shuts down is an open one, not
\* the one the worker has already closed.
C30_StopDuringReconnect ==
    [][ /\ (faults > 0 /\ idle_manager_client # None /\ stops > 0 /\ ~running)
              => idle_manager_client' = idle_manager_client
        /\ (faults > 0 /\ idle_manager_client # None /\ stops = 1
                /\ spc = "sock" /\ spc' # "sock")
              => conn[idle_manager_client] = "open" ]_vars

====
